---- MODULE Spec2Model ----
(***************************************************************************)
(* Verification model of the research-agent repository: the phase-routing  *)
(* functions, the two-node workflows, the clarification step, the startup  *)
(* environment checks, the ReAct tool loop and the search tool.            *)
(*                                                                         *)
(* Each variant of the repository is a separate program; each gets its own *)
(* specification over its own group of variables, the other groups parked. *)
(***************************************************************************)
EXTENDS Integers, Sequences, FiniteSets, TLC

VARIABLES
    rt_state,        \* routing: the state dict handed to a routing function
    rt_fn,           \* routing: the routing function that was applied ("none" before)
    rt_out,          \* routing: the branch name it returned
    wf_state,        \* agent.py: the graph state (a dict over the keys of ResearchState)
    wf_node,         \* agent.py: the node the run stands at
    wf_status,       \* agent.py: "running", "interrupted", "done" or "error"
    wf_resumes,      \* agent.py: the resume values given to the interrupted node so far
    wf_trace,        \* agent.py: the nodes that have returned, in order
    ca_state,        \* clarification_agent.py: the state __call__ is given
    ca_ret,          \* clarification_agent.py: the dict __call__ returned
    ca_pc,           \* clarification_agent.py: "ready" before the call, "returned" after
    ca_calls,        \* clarification_agent.py: the number of self.llm.invoke calls made
    ca_printed,      \* clarification_agent.py: the lines printed
    ca_reply,        \* clarification_agent.py: the model's answer to the clarification prompt
    ca_brief_reply,  \* clarification_agent.py: the model's answer to the extraction prompt
    en_prog,         \* startup: the script that is run
    en_env,          \* startup: where each API key is set (process environment, .env, nowhere)
    en_loaded,       \* startup: load_dotenv() has run
    en_pc,           \* startup: "start", "main", "done" or "crashed"
    en_events,       \* startup: what the script has done so far, in order
    en_printed,      \* startup: the variable names the printed error lists
    ra_state,        \* ReactAgent: the state conduct_research is given
    ra_pc,           \* ReactAgent: position in conduct_research
    ra_messages,     \* ReactAgent: the local message list
    ra_iteration,    \* ReactAgent: the loop counter
    ra_tool_calls,   \* ReactAgent: response.tool_calls of the last response
    ra_next,         \* ReactAgent: index of the tool call the for loop handles next
    ra_invocations,  \* ReactAgent: the number of self.llm.invoke calls made
    ra_searches,     \* ReactAgent: the tavily_tool.invoke calls made, with their outcome
    ra_varied,       \* ReactAgent: the number of responses of arbitrary shape so far
    ra_ret,          \* ReactAgent: the dict conduct_research returned
    sw_query,        \* search_web: the query argument
    sw_api,          \* search_web: what self.client.search does when it is called
    sw_pc,           \* search_web: "ready", "returned" or "raised"
    sw_ret,          \* search_web: the dict returned
    rp_fn,           \* prompts: the renderer that is applied
    rp_brief,        \* prompts: the research brief it is given
    rp_pc,           \* prompts: "ready" before the call, "returned" after
    rp_out,          \* prompts: the text it rendered, a sequence of lines of tokens
    fs_results,      \* format_search_results: the results argument
    fs_pc,           \* format_search_results: "ready" before the call, "returned" after
    fs_ret,          \* format_search_results: the text returned, a sequence of lines
    og_messages,     \* research_agent.py: the value of the messages channel (reduced with operator.add)
    og_state,        \* research_agent.py: the other fields of AgentState
    og_node,         \* research_agent.py: the node the run stands at
    og_status,       \* research_agent.py: "running", "done" or "error"
    og_runs,         \* research_agent.py: the nodes executed so far, in order
    cs_state,        \* clarify_research_scope: the state argument
    cs_pc,           \* clarify_research_scope: "start", "questions", "confirm" or "returned"
    cs_user_input,   \* clarify_research_scope: the request and the clarifications added to it
    cs_response,     \* clarify_research_scope: what the user typed last in the question loop
    cs_brief,        \* clarify_research_scope: the brief generated last
    cs_context,      \* clarify_research_scope: the context the last brief was generated from
    cs_confirmation, \* clarify_research_scope: the confirmations typed so far, in order
    cs_llm_calls,    \* clarify_research_scope: the number of self.llm.invoke calls made
    cs_ret,          \* clarify_research_scope: the dict returned
    or_mode,         \* orchestrator: "run_batch", "run_interactive" or "invoke" (a caller of create_app)
    or_brief,        \* orchestrator: the brief run_batch built from its arguments (None otherwise)
    or_state,        \* orchestrator: the graph state of the thread (OverallState)
    or_node,         \* orchestrator: the node the run stands at
    or_status,       \* orchestrator: "running", "done" or "error"
    or_trace,        \* orchestrator: the nodes executed in this invocation, in order
    or_llm_calls,    \* orchestrator: the self.llm.invoke calls the ClarificationAgent made in this invocation
    or_batches,      \* orchestrator: the number of run_batch calls made
    or_ret,          \* orchestrator: what run_batch returned
    gw_state,        \* graph.py: the graph state of the thread
    gw_node,         \* graph.py: the node the run stands at
    gw_status,       \* graph.py: "running", "done", "research" (handed to the research node) or "error"
    gw_steps,        \* graph.py: the number of node executions of the invocation
    gw_greeted,      \* graph.py: the clarification node has returned the greeting in this invocation
    cq_state,        \* agents/clarification_agent.py: the ClarificationState handed to check_if_clarified
    cq_pc,           \* agents/clarification_agent.py: "start" or "returned"
    cq_reply,        \* agents/clarification_agent.py: the content of the model's readiness reply
    cq_ret,          \* agents/clarification_agent.py: the state check_if_clarified returned
    rg_input,        \* research_agent/graph.py: the state the graph was invoked with
    rg_state,        \* research_agent/graph.py: the graph state
    rg_node,         \* research_agent/graph.py: the node the run stands at
    rg_status,       \* research_agent/graph.py: "running", "in_node", "done" or "error"
    rg_trace         \* research_agent/graph.py: the nodes that have returned, in order

routeVars == <<rt_state, rt_fn, rt_out>>
wfVars == <<wf_state, wf_node, wf_status, wf_resumes, wf_trace>>
caVars == <<ca_state, ca_ret, ca_pc, ca_calls, ca_printed, ca_reply,
            ca_brief_reply>>
enVars == <<en_prog, en_env, en_loaded, en_pc, en_events, en_printed>>
raVars == <<ra_state, ra_pc, ra_messages, ra_iteration, ra_tool_calls,
            ra_next, ra_invocations, ra_searches, ra_varied, ra_ret>>
swVars == <<sw_query, sw_api, sw_pc, sw_ret>>
rpVars == <<rp_fn, rp_brief, rp_pc, rp_out>>
fsVars == <<fs_results, fs_pc, fs_ret>>
ogVars == <<og_messages, og_state, og_node, og_status, og_runs>>
csVars == <<cs_state, cs_pc, cs_user_input, cs_response, cs_brief,
            cs_context, cs_confirmation, cs_llm_calls, cs_ret>>
orVars == <<or_mode, or_brief, or_state, or_node, or_status, or_trace,
            or_llm_calls, or_batches, or_ret>>
gwVars == <<gw_state, gw_node, gw_status, gw_steps, gw_greeted>>
cqVars == <<cq_state, cq_pc, cq_reply, cq_ret>>
rgVars == <<rg_input, rg_state, rg_node, rg_status, rg_trace>>

vars == <<routeVars, wfVars, caVars, enVars, raVars, swVars, rpVars, fsVars,
          ogVars, csVars, orVars, gwVars, cqVars, rgVars>>

restRoute == <<wfVars, caVars, enVars, raVars, swVars, rpVars, fsVars,
               ogVars, csVars, orVars, gwVars, cqVars, rgVars>>
restWf == <<routeVars, caVars, enVars, raVars, swVars, rpVars, fsVars,
            ogVars, csVars, orVars, gwVars, cqVars, rgVars>>
restCa == <<routeVars, wfVars, enVars, raVars, swVars, rpVars, fsVars,
            ogVars, csVars, orVars, gwVars, cqVars, rgVars>>
restEn == <<routeVars, wfVars, caVars, raVars, swVars, rpVars, fsVars,
            ogVars, csVars, orVars, gwVars, cqVars, rgVars>>
restRa == <<routeVars, wfVars, caVars, enVars, swVars, rpVars, fsVars,
            ogVars, csVars, orVars, gwVars, cqVars, rgVars>>
restSw == <<routeVars, wfVars, caVars, enVars, raVars, rpVars, fsVars,
            ogVars, csVars, orVars, gwVars, cqVars, rgVars>>
restRp == <<routeVars, wfVars, caVars, enVars, raVars, swVars, fsVars,
            ogVars, csVars, orVars, gwVars, cqVars, rgVars>>
restFs == <<routeVars, wfVars, caVars, enVars, raVars, swVars, rpVars,
            ogVars, csVars, orVars, gwVars, cqVars, rgVars>>
restOg == <<routeVars, wfVars, caVars, enVars, raVars, swVars, rpVars,
            fsVars, csVars, orVars, gwVars, cqVars, rgVars>>
restCs == <<routeVars, wfVars, caVars, enVars, raVars, swVars, rpVars,
            fsVars, ogVars, orVars, gwVars, cqVars, rgVars>>
restOr == <<routeVars, wfVars, caVars, enVars, raVars, swVars, rpVars,
            fsVars, ogVars, csVars, gwVars, cqVars, rgVars>>
restGw == <<routeVars, wfVars, caVars, enVars, raVars, swVars, rpVars,
            fsVars, ogVars, csVars, orVars, cqVars, rgVars>>
restCq == <<routeVars, wfVars, caVars, enVars, raVars, swVars, rpVars,
            fsVars, ogVars, csVars, orVars, gwVars, rgVars>>
restRg == <<routeVars, wfVars, caVars, enVars, raVars, swVars, rpVars,
            fsVars, ogVars, csVars, orVars, gwVars, cqVars>>

----------------------------------------------------------------------------
(* Python values and dicts                                                 *)

PyNone == [t |-> "none"]
PyBool(b) == [t |-> "bool", b |-> b]
PyStr(s) == [t |-> "str", s |-> s]
PyInt(n) == [t |-> "int", n |-> n]

\* Python truth value of a value, as `if x:` / `not x` compute it.
Truthy(v) ==
    CASE v.t = "none" -> FALSE
      [] v.t = "bool" -> v.b
      [] v.t = "str"  -> Len(v.s) > 0
      [] v.t = "int"  -> v.n # 0

\* dict.get(key, default): a dict is a function whose domain is the keys present.
Get(d, k, default) == IF k \in DOMAIN d THEN d[k] ELSE default

\* The empty dict.
EmptyDict == [k \in {} |-> PyNone]

----------------------------------------------------------------------------
(* Phase routing                                                           *)

\* A router that compares the flag with True instead of testing its truth value.
should_continue_to_research_identity(state) ==
    IF Get(state, "clarification_complete", PyBool(FALSE)) = PyBool(TRUE)
    THEN "research" ELSE "clarify"

\* research_agent/graph.py
should_continue_to_research(state) ==
    IF Truthy(Get(state, "clarification_complete", PyBool(FALSE)))
    THEN "research"
    ELSE "clarify"

\* research_agent.py
route_after_clarification(state) ==
    IF Truthy(Get(state, "clarification_complete", PyNone))
    THEN "research"
    ELSE "clarification"

\* A router without the two terminal branches.
route_next_step_noend(state) ==
    IF Truthy(Get(state, "clarification_complete", PyBool(FALSE)))
    THEN "research" ELSE "clarification"

\* graph.py
route_next_step(state) ==
    LET current_step == Get(state, "current_step", PyStr("clarification"))
        clarification_complete == Get(state, "clarification_complete", PyBool(FALSE))
    IN  IF current_step = PyStr("completed") THEN "end"
        ELSE IF current_step = PyStr("error") THEN "end"
        ELSE IF Truthy(clarification_complete) /\ current_step # PyStr("completed")
             THEN "research"
        ELSE "clarification"

\* The values a caller may have stored under clarification_complete.
FlagValues ==
    { PyNone, PyBool(TRUE), PyBool(FALSE), PyInt(0), PyInt(1),
      PyStr(""), PyStr("YES"), PyStr("y"), PyStr("no thanks") }

\* The values of current_step.
StepValues ==
    { PyStr("clarification"), PyStr("research"), PyStr("completed"), PyStr("error") }

\* Every state dict over the two keys the routers read, each key present or absent.
RouteInputs ==
    { [k \in ks |-> IF k = "clarification_complete" THEN f ELSE s] :
        ks \in SUBSET {"clarification_complete", "current_step"},
        f \in FlagValues, s \in StepValues }

RouteInit ==
    /\ rt_state \in RouteInputs
    /\ rt_fn = "none"
    /\ rt_out = "none"

RouteIdle ==
    /\ rt_state = EmptyDict
    /\ rt_fn = "idle"
    /\ rt_out = "none"

Call_should_continue_to_research ==
    /\ rt_fn = "none"
    /\ rt_fn' = "should_continue_to_research"
    /\ rt_out' = should_continue_to_research(rt_state)
    /\ UNCHANGED <<rt_state, restRoute>>

Call_route_after_clarification ==
    /\ rt_fn = "none"
    /\ rt_fn' = "route_after_clarification"
    /\ rt_out' = route_after_clarification(rt_state)
    /\ UNCHANGED <<rt_state, restRoute>>

Call_route_next_step ==
    /\ rt_fn = "none"
    /\ rt_fn' = "route_next_step"
    /\ rt_out' = route_next_step(rt_state)
    /\ UNCHANGED <<rt_state, restRoute>>

RouteNext ==
    \/ Call_should_continue_to_research
    \/ Call_route_after_clarification
    \/ Call_route_next_step

----------------------------------------------------------------------------
(* agent.py: the clarification / research workflow                         *)

MaxQuestions == 2

START == "__start__"
END == "__end__"

\* str.lower() on the characters the replies use.
LowerChar(c) ==
    CASE c = "Y" -> "y"
      [] c = "E" -> "e"
      [] c = "S" -> "s"
      [] c = "N" -> "n"
      [] c = "O" -> "o"
      [] c = "D" -> "d"
      [] c = "R" -> "r"
      [] c = "A" -> "a"
      [] c = "C" -> "c"
      [] c = "M" -> "m"
      [] c = "P" -> "p"
      [] c = "L" -> "l"
      [] c = "T" -> "t"
      [] c = "F" -> "f"
      [] c = "I" -> "i"
      [] c = "H" -> "h"
      [] OTHER -> c

\* str.lower(): a text is a sequence of characters.
Lower(s) == [i \in 1..Len(s) |-> LowerChar(s[i])]

\* str.startswith(prefix)
StartsWith(s, prefix) ==
    /\ Len(s) >= Len(prefix)
    /\ SubSeq(s, 1, Len(prefix)) = prefix

\* What a user may type at an interrupt.
Replies ==
    { <<>>, <<"y">>, <<"Y", "E", "S">>, <<"y", "e", "s">>, <<"n">>,
      <<"n", "o", " ", "t", "h", "a", "n", "k", "s">>, <<" ", "y">> }

\* The state update of StateGraph: the keys a node returns overwrite the state's.
Merge(state, update) ==
    [k \in DOMAIN state \cup DOMAIN update |->
        IF k \in DOMAIN update THEN update[k] ELSE state[k]]

should_continue(state) ==
    IF Truthy(Get(state, "clarification_complete", PyBool(FALSE)))
    THEN "research_agent"
    ELSE "end"

\* A workflow whose "end" branch leads back to the clarification node.
wf_successor_restart(node, state) ==
    CASE node = START -> "clarification_agent"
      [] node = "clarification_agent" ->
            IF should_continue(state) = "research_agent"
            THEN "research_agent" ELSE "clarification_agent"
      [] node = "research_agent" -> END

\* create_research_workflow: the node that follows `node` once it has returned
\* with the state `state`.
wf_successor(node, state) ==
    CASE node = START -> "clarification_agent"
      [] node = "clarification_agent" ->
            (LET branch == should_continue(state)
             IN  CASE branch = "research_agent" -> "research_agent"
                   [] branch = "end" -> END)
      [] node = "research_agent" -> END

\* A clarification node that tests the confirmation as it was typed.
clarification_agent_case_sensitive(state, resumes, n) ==
    IF Truthy(Get(state, "clarification_complete", PyBool(FALSE)))
    THEN [kind |-> "return", update |-> state]
    ELSE IF "original_query" \notin DOMAIN state
    THEN [kind |-> "raise", update |-> EmptyDict]
    ELSE IF Len(resumes) < n + 1
    THEN [kind |-> "interrupt", update |-> EmptyDict]
    ELSE LET confirmation == resumes[n + 1]
         IN  IF StartsWith(confirmation, <<"y">>)
             THEN [kind |-> "return",
                   update |-> [research_brief |-> PyStr("brief_text"),
                               clarification_complete |-> PyBool(TRUE),
                               current_stage |-> PyStr("research")]]
             ELSE [kind |-> "return",
                   update |-> [clarification_complete |-> PyBool(FALSE),
                               current_stage |-> PyStr("clarification")]]

\* The outcome of one execution of clarification_agent on `state`, the node
\* having been resumed with the values `resumes` and the model having produced
\* n clarification questions: the kind of outcome and the returned update.
\* interrupt() number i returns resumes[i] when there is one and otherwise
\* suspends the node; a resumed node runs again from its first line.
clarification_agent(state, resumes, n) ==
    IF Truthy(Get(state, "clarification_complete", PyBool(FALSE)))
    THEN [kind |-> "return", update |-> state]
    ELSE IF "original_query" \notin DOMAIN state
    THEN [kind |-> "raise", update |-> EmptyDict]
    ELSE IF Len(resumes) < n + 1
    THEN [kind |-> "interrupt", update |-> EmptyDict]
    ELSE LET confirmation == resumes[n + 1]
         IN  IF StartsWith(Lower(confirmation), <<"y">>)
             THEN [kind |-> "return",
                   update |-> [research_brief |-> PyStr("brief_text"),
                               clarification_complete |-> PyBool(TRUE),
                               current_stage |-> PyStr("research")]]
             ELSE [kind |-> "return",
                   update |-> [clarification_complete |-> PyBool(FALSE),
                               current_stage |-> PyStr("clarification")]]

\* research_agent_node: raises KeyError when a key it subscripts is absent.
research_agent_node(state, report) ==
    IF "research_brief" \notin DOMAIN state \/ "original_query" \notin DOMAIN state
    THEN [kind |-> "raise", update |-> EmptyDict]
    ELSE [kind |-> "return",
          update |-> [final_report |-> PyStr(report),
                      current_stage |-> PyStr("completed")]]

\* The inputs a caller may invoke the graph with.
WfInputs ==
    { [k \in ks |->
          CASE k = "original_query" -> PyStr("query")
            [] k = "clarification_complete" -> PyBool(c)
            [] k = "research_brief" -> PyStr("given_brief")
            [] k = "current_stage" -> PyStr("clarification")] :
        ks \in SUBSET {"original_query", "clarification_complete",
                       "research_brief", "current_stage"},
        c \in BOOLEAN }

WfInit ==
    /\ wf_state \in WfInputs
    /\ wf_node = START
    /\ wf_status = "running"
    /\ wf_resumes = <<>>
    /\ wf_trace = <<>>

WfIdle ==
    /\ wf_state = EmptyDict
    /\ wf_node = "idle"
    /\ wf_status = "idle"
    /\ wf_resumes = <<>>
    /\ wf_trace = <<>>

\* graph.invoke: the run enters the graph at the node START leads to.
WfEnter ==
    /\ wf_node = START
    /\ wf_status = "running"
    /\ wf_node' = wf_successor(START, wf_state)
    /\ UNCHANGED <<wf_state, wf_status, wf_resumes, wf_trace, restWf>>

\* One execution of the clarification node, from its first line to its return,
\* its interrupt or its exception.
WfClarification ==
    /\ wf_node = "clarification_agent"
    /\ wf_status = "running"
    /\ \E n \in 0..MaxQuestions :
         LET r == clarification_agent(wf_state, wf_resumes, n)
             merged == Merge(wf_state, r.update)
         IN  CASE r.kind = "return" ->
                    /\ wf_state' = merged
                    /\ wf_trace' = Append(wf_trace, wf_node)
                    /\ wf_node' = wf_successor(wf_node, merged)
                    /\ wf_status' = IF wf_successor(wf_node, merged) = END
                                    THEN "done" ELSE "running"
                    /\ wf_resumes' = <<>>
               [] r.kind = "interrupt" ->
                    /\ wf_status' = "interrupted"
                    /\ UNCHANGED <<wf_state, wf_node, wf_resumes, wf_trace>>
               [] r.kind = "raise" ->
                    /\ wf_status' = "error"
                    /\ UNCHANGED <<wf_state, wf_node, wf_resumes, wf_trace>>
    /\ UNCHANGED restWf

\* graph.invoke(Command(resume=reply)): the interrupted node is run again.
WfResume ==
    /\ wf_status = "interrupted"
    /\ Len(wf_resumes) <= MaxQuestions
    /\ \E reply \in Replies : wf_resumes' = Append(wf_resumes, reply)
    /\ wf_status' = "running"
    /\ UNCHANGED <<wf_state, wf_node, wf_trace, restWf>>

\* One execution of the research node.
WfResearch ==
    /\ wf_node = "research_agent"
    /\ wf_status = "running"
    /\ \E report \in {"report", "Research completed but no detailed report was generated."} :
         LET r == research_agent_node(wf_state, report)
             merged == Merge(wf_state, r.update)
         IN  IF r.kind = "return"
             THEN /\ wf_state' = merged
                  /\ wf_trace' = Append(wf_trace, wf_node)
                  /\ wf_node' = wf_successor(wf_node, merged)
                  /\ wf_status' = "done"
             ELSE /\ wf_status' = "error"
                  /\ UNCHANGED <<wf_state, wf_node, wf_trace>>
    /\ UNCHANGED <<wf_resumes, restWf>>

WfNext ==
    \/ WfEnter
    \/ WfClarification
    \/ WfResume
    \/ WfResearch

----------------------------------------------------------------------------
(* clarification_agent.py: ClarificationAgent.__call__                     *)

MaxMessages == 2

\* A text is a sequence of tokens; `needle in text` is token membership.
Contains(text, needle) == \E i \in 1..Len(text) : text[i] = needle

\* sep.join(items)
Join(items, sep) ==
    LET RECURSIVE J(_)
        J(i) == IF i > Len(items) THEN <<>>
                ELSE IF i = Len(items) THEN <<items[i]>>
                ELSE <<items[i], sep>> \o J(i + 1)
    IN  J(1)

Greeting ==
    <<"Hello! I'm here to help you with your research. What topic would you like me to research for you?">>

Message(role, content) == [role |-> role, content |-> content]

\* The messages a transcript handed to the agent may hold.
MessageValues ==
    { Message("user", <<"topic">>),
      Message("user", <<"CLARIFICATION_COMPLETE">>),
      Message("assistant", Greeting),
      Message("assistant", <<"Which", "scope?">>) }

Transcripts == UNION { [1..n -> MessageValues] : n \in 0..MaxMessages }

\* The states __call__ may be given: messages absent or a transcript.
CaInputs ==
    { [k \in {"current_phase"} |-> PyStr("clarification")] } \cup
    { [messages |-> m, current_phase |-> PyStr("clarification")] : m \in Transcripts }

\* What the model may answer to the clarification prompt.
ModelReplies ==
    { <<"Which", "scope?">>,
      <<>>,
      <<"CLARIFICATION_COMPLETE", "summary">>,
      <<"Done.", "CLARIFICATION_COMPLETE">> }

BriefFields == {"topic", "specific_questions", "scope", "output_requirements"}

\* What the model may answer to the brief-extraction prompt: text that is not
\* JSON, a JSON value that is no object, or a JSON object holding some of the
\* brief's fields, specific_questions being a list or (wrongly) a number.
BriefReplies ==
    { [syntax |-> "invalid"], [syntax |-> "array"] } \cup
    { [syntax |-> "object", keys |-> ks, questions |-> q] :
        ks \in SUBSET BriefFields,
        q \in { [t |-> "list", items |-> <<"q1", "q2">>],
                [t |-> "list", items |-> <<>>],
                [t |-> "int"] } }

\* json.loads followed by ResearchBrief(**brief_data): the brief, or the
\* exception raised. The four fields are required; specific_questions must be a
\* list of strings.
ParseBrief(reply) ==
    IF reply.syntax = "invalid" THEN [ok |-> FALSE, error |-> "JSONDecodeError"]
    ELSE IF reply.syntax = "array" THEN [ok |-> FALSE, error |-> "TypeError"]
    ELSE IF BriefFields \ reply.keys # {} THEN [ok |-> FALSE, error |-> "ValidationError"]
    ELSE IF reply.questions.t # "list" THEN [ok |-> FALSE, error |-> "ValidationError"]
    ELSE [ok |-> TRUE,
          brief |-> [topic |-> "topic_text",
                     specific_questions |-> reply.questions.items,
                     scope |-> "scope_text",
                     output_requirements |-> "output_text"]]

\* The assistant message that announces the brief.
BriefMessage(brief) ==
    Message("assistant",
        <<"Great! I have all the information I need. Here's the research brief:",
          "**Topic:**", brief.topic, "**Questions:**">>
        \o Join(brief.specific_questions, ", ")
        \o <<"**Scope:**", brief.scope,
             "**Output Requirements:**", brief.output_requirements,
             "Starting the research now...">>)

\* state.get("messages", [])
MessagesOf(state) == IF "messages" \in DOMAIN state THEN state["messages"] ELSE <<>>

\* The transcript is not empty and its last message has the role "user".
LastIsUser(state) ==
    LET messages == MessagesOf(state)
    IN  IF Len(messages) = 0 THEN FALSE ELSE messages[Len(messages)].role = "user"

\* The return of __call__ on an empty transcript.
GreetingTurn(state) ==
    [ret |-> [messages |-> <<Message("assistant", Greeting)>>,
              current_phase |-> PyStr("clarification")],
     calls |-> 0, printed |-> <<>>, raised |-> FALSE]

\* A turn whose try block has no except clause: the parse failure leaves the call.
ModelTurn_unguarded(state, reply, brief_reply) ==
    LET messages == MessagesOf(state)
        complete == Contains(reply, "CLARIFICATION_COMPLETE")
        parsed == ParseBrief(brief_reply)
    IN  IF ~LastIsUser(state)
        THEN [ret |-> state, calls |-> 0, printed |-> <<>>, raised |-> FALSE]
        ELSE IF complete /\ parsed.ok
        THEN [ret |-> [messages |-> Append(messages, BriefMessage(parsed.brief)),
                       research_brief |-> parsed.brief,
                       current_phase |-> PyStr("research"),
                       clarification_complete |-> PyBool(TRUE)],
              calls |-> 2, printed |-> <<>>, raised |-> FALSE]
        ELSE IF complete
        THEN [ret |-> EmptyDict, calls |-> 2, printed |-> <<>>, raised |-> TRUE]
        ELSE [ret |-> [messages |-> Append(messages, Message("assistant", reply)),
                       current_phase |-> PyStr("clarification")],
              calls |-> 1, printed |-> <<>>, raised |-> FALSE]

\* The return of __call__ on a transcript that is not empty, the model
\* answering `reply` to the clarification prompt and `brief_reply` to the
\* brief-extraction prompt.
ModelTurn(state, reply, brief_reply) ==
    LET messages == MessagesOf(state)
        complete == Contains(reply, "CLARIFICATION_COMPLETE")
        parsed == ParseBrief(brief_reply)
    IN  IF ~LastIsUser(state)
        THEN [ret |-> state, calls |-> 0, printed |-> <<>>, raised |-> FALSE]
        ELSE IF complete /\ parsed.ok
        THEN [ret |-> [messages |-> Append(messages, BriefMessage(parsed.brief)),
                       research_brief |-> parsed.brief,
                       current_phase |-> PyStr("research"),
                       clarification_complete |-> PyBool(TRUE)],
              calls |-> 2, printed |-> <<>>, raised |-> FALSE]
        ELSE [ret |-> [messages |-> Append(messages, Message("assistant", reply)),
                       current_phase |-> PyStr("clarification")],
              calls |-> IF complete THEN 2 ELSE 1,
              printed |-> IF complete
                          THEN <<"Error parsing brief: " \o parsed.error>> ELSE <<>>,
              raised |-> FALSE]

\* A handler that tests `messages is None` instead of `not messages`: an empty
\* list is not greeted.
ClarificationAgent_call_nogreeting(state, reply, brief_reply) ==
    IF "messages" \notin DOMAIN state
    THEN GreetingTurn(state)
    ELSE ModelTurn(state, reply, brief_reply)

\* ClarificationAgent.__call__: the returned dict, the number of model calls
\* made, the lines printed and whether an exception left the call.
ClarificationAgent_call(state, reply, brief_reply) ==
    IF Len(MessagesOf(state)) = 0
    THEN GreetingTurn(state)
    ELSE ModelTurn(state, reply, brief_reply)

NoReply == <<>>
NoBriefReply == [syntax |-> "none"]

CaInit ==
    /\ ca_state \in CaInputs
    /\ ca_ret = EmptyDict
    /\ ca_pc = "ready"
    /\ ca_calls = 0
    /\ ca_printed = <<>>
    /\ ca_reply = NoReply
    /\ ca_brief_reply = NoBriefReply

CaIdle ==
    /\ ca_state = EmptyDict
    /\ ca_ret = EmptyDict
    /\ ca_pc = "idle"
    /\ ca_calls = 0
    /\ ca_printed = <<>>
    /\ ca_reply = NoReply
    /\ ca_brief_reply = NoBriefReply

\* The whole of __call__ on a state without a last user message: the model is
\* not consulted.
CaCallNoModel ==
    /\ ca_pc = "ready"
    /\ ~LastIsUser(ca_state)
    /\ LET r == ClarificationAgent_call(ca_state, NoReply, NoBriefReply)
       IN  /\ ca_ret' = r.ret
           /\ ca_calls' = r.calls
           /\ ca_printed' = r.printed
           /\ ca_pc' = IF r.raised THEN "raised" ELSE "returned"
    /\ UNCHANGED <<ca_state, ca_reply, ca_brief_reply, restCa>>

\* The whole of __call__ on a state whose last message is the user's.
CaCallModel ==
    /\ ca_pc = "ready"
    /\ LastIsUser(ca_state)
    /\ \E reply \in ModelReplies, brief_reply \in BriefReplies :
         LET r == ClarificationAgent_call(ca_state, reply, brief_reply)
         IN  /\ ca_ret' = r.ret
             /\ ca_calls' = r.calls
             /\ ca_printed' = r.printed
             /\ ca_pc' = IF r.raised THEN "raised" ELSE "returned"
             /\ ca_reply' = reply
             /\ ca_brief_reply' = IF r.calls = 2 THEN brief_reply ELSE NoBriefReply
    /\ UNCHANGED <<ca_state, restCa>>

CaNext ==
    \/ CaCallNoModel
    \/ CaCallModel

----------------------------------------------------------------------------
(* Startup of graph.py, app.py, run_agent.py and example.py                *)

Programs == {"graph.py", "app.py", "run_agent.py", "example.py"}

EnvVars == {"OPENAI_API_KEY", "TAVILY_API_KEY", "ANTHROPIC_API_KEY"}

\* Where a variable's value comes from: nowhere, the process environment with
\* an empty value, the .env file only, or the process environment.
EnvKinds == {"unset", "empty", "dotenv", "environ"}

\* os.getenv(var) yields a non-empty string: values of the .env file are seen
\* only once load_dotenv() has run.
HasValue(env, loaded, var) ==
    \/ env[var] = "environ"
    \/ env[var] = "dotenv" /\ loaded

\* required_vars / required_keys, in declaration order.
RequiredVars(prog) ==
    CASE prog = "graph.py" -> <<"OPENAI_API_KEY", "TAVILY_API_KEY">>
      [] prog = "app.py" -> <<"OPENAI_API_KEY", "TAVILY_API_KEY">>
      [] prog = "run_agent.py" -> <<"ANTHROPIC_API_KEY", "TAVILY_API_KEY">>
      [] prog = "example.py" -> <<"OPENAI_API_KEY", "TAVILY_API_KEY">>

\* [var for var in required_vars if not os.getenv(var)]
MissingVars(prog, env, loaded) ==
    LET Missing(var) == ~HasValue(env, loaded, var)
    IN  SelectSeq(RequiredVars(prog), Missing)

\* example.py tests any([...]) instead of all([...]).
KeysPresent_any(prog, env, loaded) ==
    IF prog = "example.py"
    THEN HasValue(env, loaded, "OPENAI_API_KEY") \/ HasValue(env, loaded, "TAVILY_API_KEY")
    ELSE MissingVars(prog, env, loaded) = <<>>

\* The guard of the session: `not missing_vars`, and in example.py
\* all([os.getenv("OPENAI_API_KEY"), os.getenv("TAVILY_API_KEY")]).
KeysPresent(prog, env, loaded) ==
    IF prog = "example.py"
    THEN HasValue(env, loaded, "OPENAI_API_KEY") /\ HasValue(env, loaded, "TAVILY_API_KEY")
    ELSE MissingVars(prog, env, loaded) = <<>>

\* The variable names the printed error lists: the missing ones, joined or one
\* per line; example.py prints a fixed sentence naming both.
ErrorNames(prog, env, loaded) ==
    IF prog = "example.py"
    THEN <<"OPENAI_API_KEY", "TAVILY_API_KEY">>
    ELSE MissingVars(prog, env, loaded)

Construct(client, key) == [op |-> "construct", client |-> client, key |-> key]
LoadDotenv == [op |-> "load_dotenv", client |-> "", key |-> ""]
Did(op) == [op |-> op, client |-> "", key |-> ""]

\* The statements a script executes at import time, before its main block:
\* the module-level statements of the script and of the modules it imports.
ModuleLevel(prog) ==
    CASE prog = "graph.py" -> <<LoadDotenv, LoadDotenv>>
      [] prog = "app.py" ->
            <<LoadDotenv, LoadDotenv, LoadDotenv,
              Construct("ChatOpenAI", "OPENAI_API_KEY")>>
      [] prog = "run_agent.py" ->
            <<Construct("TavilyClient", "TAVILY_API_KEY"),
              Construct("ChatAnthropic", "ANTHROPIC_API_KEY"),
              Construct("ChatAnthropic", "ANTHROPIC_API_KEY")>>
      [] prog = "example.py" -> <<LoadDotenv, LoadDotenv>>

\* The statements of the main block up to the check of the variables.
BeforeCheck(prog) ==
    IF prog = "run_agent.py" THEN <<LoadDotenv, Did("check")>> ELSE <<Did("check")>>

\* The statements that follow a passed check.
Session(prog) ==
    CASE prog = "graph.py" ->
            <<Construct("ChatOpenAI", "OPENAI_API_KEY"), Did("invoke"), Did("input")>>
      [] prog = "app.py" ->
            <<Construct("ChatOpenAI", "OPENAI_API_KEY"), Did("invoke"), Did("input")>>
      [] prog = "run_agent.py" -> <<Did("input"), Did("invoke")>>
      [] prog = "example.py" ->
            <<Did("input"), Construct("ChatOpenAI", "OPENAI_API_KEY"), Did("invoke")>>

\* Whether constructing a client raises. TavilyClient raises MissingAPIKeyError
\* when it is given no key; whether a chat-model constructor raises without a
\* key depends on the installed library (`strict`).
ConstructRaises(step, env, loaded, strict) ==
    /\ step.op = "construct"
    /\ ~HasValue(env, loaded, step.key)
    /\ step.client = "TavilyClient" \/ strict

\* Executes `steps` in order from the log `events`, stopping at the first
\* exception: the log, whether .env has been loaded, and whether it crashed.
RECURSIVE Run(_, _, _, _, _)
Run(steps, events, env, loaded, strict) ==
    IF steps = <<>>
    THEN [events |-> events, loaded |-> loaded, crashed |-> FALSE]
    ELSE LET step == Head(steps)
         IN  IF ConstructRaises(step, env, loaded, strict)
             THEN [events |-> Append(events, Did("raise")),
                   loaded |-> loaded, crashed |-> TRUE]
             ELSE Run(Tail(steps), Append(events, step), env,
                      loaded \/ step.op = "load_dotenv", strict)

EnInit ==
    /\ en_prog \in Programs
    /\ en_env \in [EnvVars -> EnvKinds]
    /\ en_loaded = FALSE
    /\ en_pc = "start"
    /\ en_events = <<>>
    /\ en_printed = <<>>

EnIdle ==
    /\ en_prog = "idle"
    /\ en_env = [v \in EnvVars |-> "unset"]
    /\ en_loaded = FALSE
    /\ en_pc = "idle"
    /\ en_events = <<>>
    /\ en_printed = <<>>

\* python <script>: the imports and the module-level statements.
EnImport ==
    /\ en_pc = "start"
    /\ \E strict \in BOOLEAN :
         LET r == Run(ModuleLevel(en_prog), en_events, en_env, en_loaded, strict)
         IN  /\ en_events' = r.events
             /\ en_loaded' = r.loaded
             /\ en_pc' = IF r.crashed THEN "crashed" ELSE "main"
    /\ UNCHANGED <<en_prog, en_env, en_printed, restEn>>

\* The main block when a required variable is missing: the error is printed
\* and the script ends.
EnReject ==
    /\ en_pc = "main"
    /\ LET r == Run(BeforeCheck(en_prog), en_events, en_env, en_loaded, FALSE)
       IN  /\ ~KeysPresent(en_prog, en_env, r.loaded)
           /\ en_events' = Append(r.events, Did("print_error"))
           /\ en_loaded' = r.loaded
           /\ en_printed' = ErrorNames(en_prog, en_env, r.loaded)
           /\ en_pc' = "done"
    /\ UNCHANGED <<en_prog, en_env, restEn>>

\* The main block when the check passes: the session is started.
EnStart ==
    /\ en_pc = "main"
    /\ \E strict \in BOOLEAN :
         LET c == Run(BeforeCheck(en_prog), en_events, en_env, en_loaded, strict)
             r == Run(Session(en_prog), c.events, en_env, c.loaded, strict)
         IN  /\ KeysPresent(en_prog, en_env, c.loaded)
             /\ en_events' = r.events
             /\ en_loaded' = r.loaded
             /\ en_pc' = IF r.crashed THEN "crashed" ELSE "done"
    /\ UNCHANGED <<en_prog, en_env, en_printed, restEn>>

EnNext ==
    \/ EnImport
    \/ EnReject
    \/ EnStart

----------------------------------------------------------------------------
(* research_agent/react_agent.py: ReactAgent.conduct_research              *)

max_iterations == 10

MaxToolCalls == 2
MaxVaried == 1

HumanMessage(content) ==
    [type |-> "human", content |-> content, tool_calls |-> <<>>, tool_call_id |-> <<>>]
AIMessage(content, tool_calls) ==
    [type |-> "ai", content |-> content, tool_calls |-> tool_calls, tool_call_id |-> <<>>]
ToolMessage(content, tool_call_id) ==
    [type |-> "tool", content |-> content, tool_calls |-> <<>>, tool_call_id |-> tool_call_id]

\* A tool call of a response: its id and whether its args hold "query".
ToolCall(id, has_query) == [id |-> id, has_query |-> has_query]

\* The tool-call lists the model may put in its response number `iteration`:
\* up to MaxToolCalls calls with ids of their own, each with or without a
\* "query" argument.
ToolCallLists(iteration) ==
    UNION { { [k \in 1..n |-> ToolCall(<<iteration, k>>, q[k])] : q \in [1..n -> BOOLEAN] } :
            n \in 0..MaxToolCalls }

\* A response of the usual shape: no tool call, or one call with a query.
\* Responses of any other shape, and failed searches of a usual response, are
\* counted in ra_varied and bounded by MaxVaried.
Plain(tool_calls) ==
    \/ tool_calls = <<>>
    \/ Len(tool_calls) = 1 /\ tool_calls[1].has_query

\* The ToolMessage appended for a tool call whose search ended with `outcome`.
ToolReply(tool_call, outcome) ==
    IF outcome = "ok"
    THEN ToolMessage("json_result", tool_call.id)
    ELSE ToolMessage("Error executing search: error", tool_call.id)

\* The states conduct_research may be given: research_brief absent, empty or set.
RaInputs ==
    { [k \in {"clarification_complete"} |-> PyBool(TRUE)],
      [clarification_complete |-> PyBool(TRUE), research_brief |-> PyStr("")],
      [clarification_complete |-> PyBool(TRUE), research_brief |-> PyStr("brief")],
      [clarification_complete |-> PyBool(FALSE), research_brief |-> PyStr("brief")] }

RaInit ==
    /\ ra_state \in RaInputs
    /\ ra_pc = "entry"
    /\ ra_messages = <<>>
    /\ ra_iteration = 0
    /\ ra_tool_calls = <<>>
    /\ ra_next = 1
    /\ ra_invocations = 0
    /\ ra_searches = <<>>
    /\ ra_varied = 0
    /\ ra_ret = EmptyDict

RaIdle ==
    /\ ra_state = EmptyDict
    /\ ra_pc = "idle"
    /\ ra_messages = <<>>
    /\ ra_iteration = 0
    /\ ra_tool_calls = <<>>
    /\ ra_next = 1
    /\ ra_invocations = 0
    /\ ra_searches = <<>>
    /\ ra_varied = 0
    /\ ra_ret = EmptyDict

\* An entry that looks for the key only and takes an empty brief for a brief.
RaEntry_key_only ==
    /\ ra_pc = "entry"
    /\ IF "research_brief" \notin DOMAIN ra_state
       THEN /\ ra_ret' = [final_report |-> "No research brief provided"]
            /\ ra_pc' = "done"
            /\ UNCHANGED ra_messages
       ELSE /\ ra_messages' = <<HumanMessage("research_request")>>
            /\ ra_pc' = "loop"
            /\ UNCHANGED ra_ret
    /\ UNCHANGED <<ra_state, ra_iteration, ra_tool_calls, ra_next, ra_invocations,
                   ra_searches, ra_varied, restRa>>

\* Lines 17-41: without a brief the call returns at once; with one the message
\* list is started with the research request.
RaEntry ==
    /\ ra_pc = "entry"
    /\ IF ~Truthy(Get(ra_state, "research_brief", PyNone))
       THEN /\ ra_ret' = [final_report |-> "No research brief provided"]
            /\ ra_pc' = "done"
            /\ UNCHANGED ra_messages
       ELSE /\ ra_messages' = <<HumanMessage("research_request")>>
            /\ ra_pc' = "loop"
            /\ UNCHANGED ra_ret
    /\ UNCHANGED <<ra_state, ra_iteration, ra_tool_calls, ra_next, ra_invocations,
                   ra_searches, ra_varied, restRa>>

\* Lines 42-51 and 73-75: one pass of the while loop up to the test of
\* response.tool_calls; a response without tool calls breaks out of the loop.
RaInvoke ==
    /\ ra_pc = "loop"
    /\ ra_iteration < max_iterations
    /\ \E tool_calls \in ToolCallLists(ra_iteration + 1) :
         /\ Plain(tool_calls) \/ ra_varied < MaxVaried
         /\ ra_varied' = IF Plain(tool_calls) THEN ra_varied ELSE ra_varied + 1
         /\ ra_messages' = Append(ra_messages, AIMessage("reasoning", tool_calls))
         /\ ra_tool_calls' = tool_calls
         /\ ra_pc' = IF tool_calls # <<>> THEN "tools" ELSE "final"
    /\ ra_iteration' = ra_iteration + 1
    /\ ra_invocations' = ra_invocations + 1
    /\ ra_next' = 1
    /\ UNCHANGED <<ra_state, ra_searches, ra_ret, restRa>>

\* Line 42: the while condition fails after max_iterations passes.
RaExhausted ==
    /\ ra_pc = "loop"
    /\ ra_iteration >= max_iterations
    /\ ra_pc' = "final"
    /\ UNCHANGED <<ra_state, ra_messages, ra_iteration, ra_tool_calls, ra_next,
                   ra_invocations, ra_searches, ra_varied, ra_ret, restRa>>

\* Lines 52-71: one pass of the for loop. The print of the query is outside
\* the try block: a call without "query" raises KeyError out of
\* conduct_research. The search and the ToolMessage are inside it.
RaTool ==
    /\ ra_pc = "tools"
    /\ LET tool_call == ra_tool_calls[ra_next]
           last == ra_next = Len(ra_tool_calls)
       IN  IF ~tool_call.has_query
           THEN /\ ra_pc' = "raised"
                /\ UNCHANGED <<ra_messages, ra_searches, ra_next, ra_varied>>
           ELSE \E outcome \in {"ok", "raise"} :
                  /\ outcome = "ok" \/ ra_varied < MaxVaried \/ ~Plain(ra_tool_calls)
                  /\ ra_varied' = IF outcome = "raise" /\ Plain(ra_tool_calls)
                                  THEN ra_varied + 1 ELSE ra_varied
                  /\ ra_searches' = Append(ra_searches, [id |-> tool_call.id, outcome |-> outcome])
                  /\ ra_messages' = Append(ra_messages, ToolReply(tool_call, outcome))
                  /\ ra_next' = ra_next + 1
                  /\ ra_pc' = IF last THEN "loop" ELSE "tools"
    /\ UNCHANGED <<ra_state, ra_iteration, ra_tool_calls, ra_invocations,
                   ra_ret, restRa>>

\* Lines 77-91: the final model call and the return.
RaFinal ==
    /\ ra_pc = "final"
    /\ ra_invocations' = ra_invocations + 1
    /\ ra_ret' = [final_report |-> "final_report_text",
                  messages |-> <<AIMessage("Research completed. Final report: final_report_text", <<>>)>>]
    /\ ra_pc' = "done"
    /\ UNCHANGED <<ra_state, ra_messages, ra_iteration, ra_tool_calls, ra_next,
                   ra_searches, ra_varied, restRa>>

RaNext ==
    \/ RaEntry
    \/ RaInvoke
    \/ RaExhausted
    \/ RaTool
    \/ RaFinal

----------------------------------------------------------------------------
(* research_agent/tools.py: TavilySearchTool.search_web                    *)

MaxResults == 2

ResultFields == {"title", "url", "content", "score"}

\* One result of the search API: a dict holding some of the four fields, or
\* all four and a fifth one; its values carry the tag `n` of the result.
ApiResults ==
    { [k \in ks |-> IF k = "score" THEN n ELSE <<k, n>>] :
        ks \in (SUBSET ResultFields) \cup {ResultFields \cup {"raw_content"}},
        n \in 1..2 }

ApiResultLists == UNION { [1..n -> ApiResults] : n \in 0..MaxResults }

\* The response dict of the search API: "results" and "answer" each present or not.
ApiResponses ==
    { [k \in ks |-> IF k = "answer" THEN "answer_text" ELSE rs] :
        ks \in SUBSET {"answer", "results"}, rs \in ApiResultLists }

\* What self.client.search does: it raises, it returns a response dict, or it
\* returns something that is no dict.
ApiOutcomes ==
    { [kind |-> "raise", error |-> "timeout"], [kind |-> "none"] } \cup
    { [kind |-> "dict", value |-> r] : r \in ApiResponses }

\* The record built for one API result (lines 39-45).
FormatResult(result) ==
    [title |-> Get(result, "title", ""),
     url |-> Get(result, "url", ""),
     content |-> Get(result, "content", ""),
     score |-> Get(result, "score", 0)]

\* The dict of the except branch (lines 49-54).
SearchError(query, error) ==
    [error |-> <<"Search failed: ", error>>, query |-> query, results |-> <<>>]

\* A search_web without the try block: an exception of the client leaves it.
search_web_unguarded(query, api) ==
    IF api.kind = "raise"
    THEN [raised |-> TRUE, ret |-> EmptyDict]
    ELSE IF api.kind = "none"
    THEN [raised |-> TRUE, ret |-> EmptyDict]
    ELSE LET results == Get(api.value, "results", <<>>)
         IN  [raised |-> FALSE,
              ret |-> [query |-> query,
                       answer |-> Get(api.value, "answer", ""),
                       results |-> [i \in 1..Len(results) |-> FormatResult(results[i])]]]

\* search_web(query): the whole body runs in try / except Exception; calling
\* .get on a response that is no dict raises AttributeError inside it.
search_web(query, api) ==
    IF api.kind = "raise"
    THEN [raised |-> FALSE, ret |-> SearchError(query, api.error)]
    ELSE IF api.kind = "none"
    THEN [raised |-> FALSE, ret |-> SearchError(query, "AttributeError")]
    ELSE LET results == Get(api.value, "results", <<>>)
         IN  [raised |-> FALSE,
              ret |-> [query |-> query,
                       answer |-> Get(api.value, "answer", ""),
                       results |-> [i \in 1..Len(results) |-> FormatResult(results[i])]]]

SwInit ==
    /\ sw_query \in {"query_text", ""}
    /\ sw_api \in ApiOutcomes
    /\ sw_pc = "ready"
    /\ sw_ret = EmptyDict

SwIdle ==
    /\ sw_query = ""
    /\ sw_api = [kind |-> "none"]
    /\ sw_pc = "idle"
    /\ sw_ret = EmptyDict

\* tavily_tool.invoke({"query": ...}): the whole of search_web.
SwCall ==
    /\ sw_pc = "ready"
    /\ LET r == search_web(sw_query, sw_api)
       IN  /\ sw_pc' = IF r.raised THEN "raised" ELSE "returned"
           /\ sw_ret' = r.ret
    /\ UNCHANGED <<sw_query, sw_api, restSw>>

SwNext == SwCall

----------------------------------------------------------------------------
(* Prompt and brief rendering                                              *)
(* A rendered text is a sequence of lines, a line a sequence of tokens: the *)
(* fixed words of the f-string and the strings substituted into it.         *)

MaxKeyQuestions == 4
MaxListed == 1

\* The strings a brief's lists may hold; the same string may be an objective,
\* a question and a constraint.
BriefTexts == {"a", "b"}

ListsUpTo(n) == UNION { [1..k -> BriefTexts] : k \in 0..n }

\* Python's seq[:n]
Take(seq, n) == SubSeq(seq, 1, IF Len(seq) < n THEN Len(seq) ELSE n)

\* chr(10).join(f"- {x}" for x in items): one line per item; the join of no
\* items is the empty string, which is one empty line of the text.
BulletLines(items) ==
    IF items = <<>> THEN << <<>> >>
    ELSE [i \in 1..Len(items) |-> <<"-", items[i]>>]

\* agents/clarification_agent.py ResearchBrief
AgentsBriefs ==
    { [topic |-> "topic", objectives |-> o, scope |-> "scope",
       key_questions |-> q, constraints |-> c] :
        o \in ListsUpTo(MaxListed), q \in ListsUpTo(MaxKeyQuestions),
        c \in ListsUpTo(MaxListed) }

\* agent.py ResearchBrief
WorkflowBriefs ==
    { [research_objectives |-> o, scope_boundaries |-> <<"scope">>,
       key_questions |-> q, target_depth |-> "detailed",
       specific_focus_areas |-> c] :
        o \in ListsUpTo(MaxListed), q \in ListsUpTo(MaxKeyQuestions),
        c \in ListsUpTo(MaxListed) }

\* research_agent.py ResearchBrief; constraints is Optional[str].
GraphBriefs ==
    { [topic |-> "topic", scope |-> "scope", specific_questions |-> q,
       key_areas |-> o, constraints |-> c] :
        o \in ListsUpTo(MaxListed), q \in ListsUpTo(MaxKeyQuestions),
        c \in {PyNone, PyStr(""), PyStr("a")} }

\* A system prompt that lists only the first three questions.
create_system_prompt_first3(research_brief) ==
    << <<"You are an expert research agent conducting deep research based on the following brief:">>,
       <<>>,
       <<"**Topic:**", research_brief.topic>>,
       <<>>,
       <<"**Objectives:**">> >>
    \o BulletLines(research_brief.objectives)
    \o << <<>>,
          <<"**Scope:**", research_brief.scope>>,
          <<>>,
          <<"**Key Questions to Answer:**">> >>
    \o BulletLines(Take(research_brief.key_questions, 3))
    \o << <<>>,
          <<"**Constraints:**">> >>
    \o (IF research_brief.constraints # <<>>
        THEN BulletLines(research_brief.constraints) ELSE << <<"None">> >>)
    \o << <<>>,
          <<"Your task is to:">> >>

\* ReactResearchAgent._create_system_prompt: the content of the SystemMessage
\* it puts before the messages when the state holds a brief.
create_system_prompt(research_brief) ==
    << <<"You are an expert research agent conducting deep research based on the following brief:">>,
       <<>>,
       <<"**Topic:**", research_brief.topic>>,
       <<>>,
       <<"**Objectives:**">> >>
    \o BulletLines(research_brief.objectives)
    \o << <<>>,
          <<"**Scope:**", research_brief.scope>>,
          <<>>,
          <<"**Key Questions to Answer:**">> >>
    \o BulletLines(research_brief.key_questions)
    \o << <<>>,
          <<"**Constraints:**">> >>
    \o (IF research_brief.constraints # <<>>
        THEN BulletLines(research_brief.constraints) ELSE << <<"None">> >>)
    \o << <<>>,
          <<"Your task is to:">> >>

\* agent.py clarification_agent, lines 159-173: brief_text.
brief_text(research_brief) ==
    << <<>>,
       <<"Research Objectives:">> >>
    \o BulletLines(research_brief.research_objectives)
    \o << <<>>,
          <<"Scope Boundaries:">> >>
    \o BulletLines(research_brief.scope_boundaries)
    \o << <<>>,
          <<"Key Questions to Answer:">> >>
    \o BulletLines(research_brief.key_questions)
    \o << <<>>,
          <<"Target Depth:", research_brief.target_depth>>,
          <<>>,
          <<"Specific Focus Areas:">> >>
    \o BulletLines(research_brief.specific_focus_areas)
    \o << <<>> >>

\* research_agent.py ResearchAgent.__call__, lines 139-145: the brief block.
\* `brief.constraints or 'None'` replaces None and the empty string.
brief_block(brief) ==
    << <<>>,
       <<"Topic:", brief.topic>>,
       <<"Scope:", brief.scope>>,
       <<"Questions:">> \o Join(brief.specific_questions, ","),
       <<"Key Areas:">> \o Join(brief.key_areas, ","),
       <<"Constraints:", IF Truthy(brief.constraints) THEN brief.constraints.s ELSE "None">>,
       <<>> >>

\* ReactResearchAgent.research, lines 73-77: the content of initial_message,
\* a single line.
initial_message(research_brief) ==
    << <<"Please conduct comprehensive research on:", research_brief.topic, ".",
         "Focus on these objectives:">>
       \o Join(Take(research_brief.objectives, 3), ",")
       \o <<".", "Answer these key questions:">>
       \o Join(Take(research_brief.key_questions, 3), ",") >>

Renderers == {"_create_system_prompt", "brief_text", "brief_block", "initial_message"}

RpInit ==
    /\ rp_fn \in Renderers
    /\ rp_brief \in (CASE rp_fn = "_create_system_prompt" -> AgentsBriefs
                       [] rp_fn = "initial_message" -> AgentsBriefs
                       [] rp_fn = "brief_text" -> WorkflowBriefs
                       [] rp_fn = "brief_block" -> GraphBriefs)
    /\ rp_pc = "ready"
    /\ rp_out = <<>>

RpIdle ==
    /\ rp_fn = "none"
    /\ rp_brief = EmptyDict
    /\ rp_pc = "idle"
    /\ rp_out = <<>>

Render_create_system_prompt ==
    /\ rp_pc = "ready"
    /\ rp_fn = "_create_system_prompt"
    /\ rp_out' = create_system_prompt(rp_brief)
    /\ rp_pc' = "returned"
    /\ UNCHANGED <<rp_fn, rp_brief, restRp>>

Render_brief_text ==
    /\ rp_pc = "ready"
    /\ rp_fn = "brief_text"
    /\ rp_out' = brief_text(rp_brief)
    /\ rp_pc' = "returned"
    /\ UNCHANGED <<rp_fn, rp_brief, restRp>>

Render_brief_block ==
    /\ rp_pc = "ready"
    /\ rp_fn = "brief_block"
    /\ rp_out' = brief_block(rp_brief)
    /\ rp_pc' = "returned"
    /\ UNCHANGED <<rp_fn, rp_brief, restRp>>

Render_initial_message ==
    /\ rp_pc = "ready"
    /\ rp_fn = "initial_message"
    /\ rp_out' = initial_message(rp_brief)
    /\ rp_pc' = "returned"
    /\ UNCHANGED <<rp_fn, rp_brief, restRp>>

RpNext ==
    \/ Render_create_system_prompt
    \/ Render_brief_text
    \/ Render_brief_block
    \/ Render_initial_message

----------------------------------------------------------------------------
(* tools.py: format_search_results                                         *)

MaxFormatted == 2

\* The length after which format_search_results cuts a result's content.
PreviewLen == 500

\* Result contents are sequences of characters; the character at position i
\* depends on i, so that a cut at the wrong place or end shows.
ContentOfLen(n) == [i \in 1..n |-> i % 7]

ContentLens == {0, 1, PreviewLen - 1, PreviewLen, PreviewLen + 1, 2 * PreviewLen}

\* A search result of Tavily: a dict holding some of title, url and content.
SearchResults ==
    { [k \in ks |->
          CASE k = "title" -> <<"t">>
            [] k = "url" -> <<"u">>
            [] k = "content" -> ContentOfLen(n)] :
        ks \in SUBSET {"title", "url", "content"}, n \in ContentLens }

SearchResultLists == UNION { [1..k -> SearchResults] : k \in 0..MaxFormatted }

\* The four lines and the empty line appended for result number i, the content
\* cut after `cut` characters.
FormattedBlock(i, result, cut) ==
    LET content == Get(result, "content", <<"No content">>)
    IN  << <<"Result", i, ":">>,
           <<"  Title:", Get(result, "title", <<"No title">>)>>,
           <<"  URL:", Get(result, "url", <<"No URL">>)>>,
           <<"  Content:",
             SubSeq(content, 1, IF Len(content) < cut THEN Len(content) ELSE cut),
             "...">>,
           <<>> >>

\* A formatter that cuts the content after 300 characters.
format_search_results_300(results) ==
    LET RECURSIVE F(_)
        F(i) == IF i > Len(results) THEN <<>>
                ELSE FormattedBlock(i, results[i], 300) \o F(i + 1)
    IN  IF results = <<>> THEN << <<"No search results found.">> >> ELSE F(1)

\* format_search_results: the lines joined by "\n".
format_search_results(results) ==
    LET RECURSIVE F(_)
        F(i) == IF i > Len(results) THEN <<>>
                ELSE FormattedBlock(i, results[i], PreviewLen) \o F(i + 1)
    IN  IF results = <<>> THEN << <<"No search results found.">> >> ELSE F(1)

FsInit ==
    /\ fs_results \in SearchResultLists
    /\ fs_pc = "ready"
    /\ fs_ret = <<>>

FsIdle ==
    /\ fs_results = <<>>
    /\ fs_pc = "idle"
    /\ fs_ret = <<>>

FsCall ==
    /\ fs_pc = "ready"
    /\ fs_ret' = format_search_results(fs_results)
    /\ fs_pc' = "returned"
    /\ UNCHANGED <<fs_results, restFs>>

FsNext == FsCall

----------------------------------------------------------------------------
(* research_agent.py: the graph whose messages are reduced with operator.add *)

MaxNodeRuns == 3

\* The transcripts run_research_agent may invoke the graph with.
OgTranscripts ==
    { <<>>,
      << Message("user", "topic") >>,
      << Message("user", "topic"), Message("assistant", "Which scope?"),
         Message("user", "all of it") >> }

\* The inputs of app.invoke: every field of AgentState but messages.
OgInputs ==
    { [research_brief |-> PyNone, clarification_complete |-> PyBool(c),
       final_report |-> PyNone, current_phase |-> PyStr("clarification")] :
        c \in BOOLEAN }

\* What self.llm.invoke may answer in the clarification node.
OgReplies == {"Which scope?", "CLARIFICATION_COMPLETE summary"}

\* The final message of the ReAct agent's run.
OgReports == {"report", ""}

\* operator.add on two lists
operator_add(left, right) == left \o right

\* The messages channel after a node that was handed the channel's list
\* `messages`, appended `appended` to it in place and returned the whole state.
\* The reducer adds the returned list to the channel's value; whether the
\* in-place append is already visible in that value depends on whether the
\* node was handed the channel's own list (aliased) or a copy of it.
ReduceReturnedState(messages, appended, aliased) ==
    operator_add(IF aliased THEN messages \o appended ELSE messages,
                 messages \o appended)

\* route_after_research
route_after_research(state) ==
    IF Truthy(Get(state, "final_report", PyNone)) THEN END ELSE "research"

\* A clarification step that raises the flag and leaves the brief as it was.
OgClarificationAgent_call_flag_only(state, reply) ==
    [appended |-> << Message("assistant", reply) >>,
     state |-> IF reply = "CLARIFICATION_COMPLETE summary"
               THEN Merge(state, [clarification_complete |-> PyBool(TRUE),
                                  current_phase |-> PyStr("research")])
               ELSE state]

\* ClarificationAgent.__call__ (research_agent.py): the message appended and
\* the fields assigned when the model answers `reply`.
OgClarificationAgent_call(state, reply) ==
    [appended |-> << Message("assistant", reply) >>,
     state |-> IF reply = "CLARIFICATION_COMPLETE summary"
               THEN Merge(state, [research_brief |-> PyStr("brief"),
                                  clarification_complete |-> PyBool(TRUE),
                                  current_phase |-> PyStr("research")])
               ELSE state]

\* ResearchAgent.__call__ (research_agent.py): returns the state untouched when
\* there is no brief; otherwise stores the report and appends one message.
OgResearchAgent_call(state, report) ==
    IF ~Truthy(Get(state, "research_brief", PyNone))
    THEN [appended |-> <<>>, state |-> state]
    ELSE [appended |-> << Message("assistant", "Research Complete: " \o report) >>,
          state |-> Merge(state, [final_report |-> PyStr(report),
                                  current_phase |-> PyStr("complete")])]

OgInit ==
    /\ og_messages \in OgTranscripts
    /\ og_state \in OgInputs
    /\ og_node = START
    /\ og_status = "running"
    /\ og_runs = <<>>

OgIdle ==
    /\ og_messages = <<>>
    /\ og_state = EmptyDict
    /\ og_node = "idle"
    /\ og_status = "idle"
    /\ og_runs = <<>>

\* app.invoke(state): the input transcript is added to the empty channel and
\* the run enters at the clarification node.
OgEnter ==
    /\ og_node = START
    /\ og_status = "running"
    /\ og_messages' = operator_add(<<>>, og_messages)
    /\ og_node' = "clarification"
    /\ UNCHANGED <<og_state, og_status, og_runs, restOg>>

\* One execution of the clarification node and the routing after it.
OgClarification ==
    /\ og_node = "clarification"
    /\ og_status = "running"
    /\ Len(og_runs) < MaxNodeRuns
    /\ \E reply \in OgReplies, aliased \in BOOLEAN :
         LET r == OgClarificationAgent_call(og_state, reply)
         IN  /\ og_messages' = ReduceReturnedState(og_messages, r.appended, aliased)
             /\ og_state' = r.state
             /\ og_node' = route_after_clarification(r.state)
    /\ og_runs' = Append(og_runs, "clarification")
    /\ UNCHANGED <<og_status, restOg>>

\* One execution of the research node and the routing after it.
OgResearch ==
    /\ og_node = "research"
    /\ og_status = "running"
    /\ Len(og_runs) < MaxNodeRuns
    /\ \E report \in OgReports, aliased \in BOOLEAN :
         LET r == OgResearchAgent_call(og_state, report)
         IN  /\ og_messages' = ReduceReturnedState(og_messages, r.appended, aliased)
             /\ og_state' = r.state
             /\ og_node' = route_after_research(r.state)
             /\ og_status' = IF route_after_research(r.state) = END
                             THEN "done" ELSE "running"
    /\ og_runs' = Append(og_runs, "research")
    /\ UNCHANGED restOg

OgNext ==
    \/ OgEnter
    \/ OgClarification
    \/ OgResearch

----------------------------------------------------------------------------
(* research_agent/clarification_agent.py: clarify_research_scope           *)

MaxClarifications == 1
MaxRejections == 2

\* What the user may type at "Is this research brief accurate? (yes/no): ".
Confirmations ==
    { <<>>, <<"y">>, <<"Y">>, <<"y", "e", "s">>, <<"Y", "E", "S">>, <<"Y", "e", "s">>,
      <<"y", "e", "s", " ">>, <<" ", "y">>, <<"y", "e", "s", "s">>, <<"n">>, <<"n", "o">>,
      <<"n", "o", " ", "t", "h", "a", "n", "k", "s">> }

\* What the user may type at "You: " in the question loop.
UserResponses ==
    { <<"d", "o", "n", "e">>, <<"D", "O", "N", "E">>, <<"d", "o", "n", "e", " ">>,
      <<"y", "e", "s">>,
      <<"C", "o", "m", "p", "l", "e", "t", "e">>,
      <<"F", "I", "N", "I", "S", "H", "E", "D">>,
      <<"r", "e", "a", "d", "y">>,
      <<"f", "i", "n", "i", "s", "h">> }

\* A loop that knows the first sentinel only.
EndsQuestions_done_only(user_response) == Lower(user_response) = <<"d", "o", "n", "e">>

\* user_response.lower() in ["done", "complete", "finished", "ready"]
EndsQuestions(user_response) ==
    Lower(user_response) \in { <<"d", "o", "n", "e">>,
                               <<"c", "o", "m", "p", "l", "e", "t", "e">>,
                               <<"f", "i", "n", "i", "s", "h", "e", "d">>,
                               <<"r", "e", "a", "d", "y">> }

\* An acceptance test that looks at the first letter only.
Accepts_startswith(confirmation) == StartsWith(Lower(confirmation), <<"y">>)

\* confirmation.lower() in ["yes", "y"]
Accepts(confirmation) == Lower(confirmation) \in { <<"y", "e", "s">>, <<"y">> }

\* The states the node may be given.
CsInputs ==
    { [k \in ks |->
          CASE k = "clarification_complete" -> PyBool(c)
            [] k = "messages" -> m] :
        ks \in SUBSET {"clarification_complete", "messages"},
        c \in BOOLEAN,
        m \in { <<>>, << Message("human", "topic") >> } }

\* _get_initial_request: the content of the latest message, or what the user
\* types when there is none.
get_initial_request(state) ==
    IF "messages" \in DOMAIN state /\ state["messages"] # <<>>
    THEN << state["messages"][Len(state["messages"])].content >>
    ELSE << "typed request" >>

CsInit ==
    /\ cs_state \in CsInputs
    /\ cs_pc = "start"
    /\ cs_user_input = <<>>
    /\ cs_response = <<>>
    /\ cs_brief = 0
    /\ cs_context = <<>>
    /\ cs_confirmation = <<>>
    /\ cs_llm_calls = 0
    /\ cs_ret = EmptyDict

CsIdle ==
    /\ cs_state = EmptyDict
    /\ cs_pc = "idle"
    /\ cs_user_input = <<>>
    /\ cs_response = <<>>
    /\ cs_brief = 0
    /\ cs_context = <<>>
    /\ cs_confirmation = <<>>
    /\ cs_llm_calls = 0
    /\ cs_ret = EmptyDict

\* Lines 19-24 and 52: with clarification already complete the method returns
\* at once; otherwise it takes the request and asks the first questions.
CsBegin ==
    /\ cs_pc = "start"
    /\ IF Truthy(Get(cs_state, "clarification_complete", PyBool(FALSE)))
       THEN /\ cs_ret' = [clarification_complete |-> PyBool(TRUE)]
            /\ cs_pc' = "returned"
            /\ UNCHANGED <<cs_user_input, cs_llm_calls>>
       ELSE /\ cs_user_input' = get_initial_request(cs_state)
            /\ cs_llm_calls' = cs_llm_calls + 1
            /\ cs_pc' = "questions"
            /\ UNCHANGED cs_ret
    /\ UNCHANGED <<cs_state, cs_response, cs_brief, cs_context, cs_confirmation, restCs>>

\* Lines 26-37: the user's response ends the question loop, and the brief is
\* generated, or is added to the request and more questions are asked.
CsRespond ==
    /\ cs_pc = "questions"
    /\ \E user_response \in UserResponses :
         /\ cs_response' = user_response
         /\ IF EndsQuestions(user_response)
            THEN /\ cs_brief' = cs_brief + 1
                 /\ cs_context' = cs_user_input
                 /\ cs_llm_calls' = cs_llm_calls + 1
                 /\ cs_pc' = "confirm"
                 /\ UNCHANGED cs_user_input
            ELSE /\ Len(cs_user_input) <= MaxClarifications
                 /\ cs_user_input' = Append(cs_user_input, user_response)
                 /\ cs_llm_calls' = cs_llm_calls + 1
                 /\ UNCHANGED <<cs_brief, cs_context, cs_pc>>
    /\ UNCHANGED <<cs_state, cs_confirmation, cs_ret, restCs>>

\* A confirmation step that hands a rejected brief back to the graph.
CsConfirm_returns_rejection ==
    /\ cs_pc = "confirm"
    /\ \E confirmation \in Confirmations :
         /\ cs_confirmation' = Append(cs_confirmation, confirmation)
         /\ IF Accepts(confirmation)
            THEN cs_ret' = [research_brief |-> PyInt(cs_brief),
                            clarification_complete |-> PyBool(TRUE),
                            messages |-> << Message("ai", <<"Research brief created:", cs_brief>>) >>]
            ELSE cs_ret' = [clarification_complete |-> PyBool(FALSE)]
         /\ cs_pc' = "returned"
    /\ UNCHANGED <<cs_state, cs_user_input, cs_response, cs_brief, cs_context,
                   cs_llm_calls, restCs>>

\* Lines 40-50: the confirmation accepts the brief, and the method returns it,
\* or the method calls itself with the same state.
CsConfirm ==
    /\ cs_pc = "confirm"
    /\ \E confirmation \in Confirmations :
         /\ cs_confirmation' = Append(cs_confirmation, confirmation)
         /\ IF Accepts(confirmation)
            THEN /\ cs_ret' = [research_brief |-> PyInt(cs_brief),
                               clarification_complete |-> PyBool(TRUE),
                               messages |-> << Message("ai", <<"Research brief created:", cs_brief>>) >>]
                 /\ cs_pc' = "returned"
            ELSE /\ Len(cs_confirmation) < MaxRejections
                 /\ cs_pc' = "start"
                 /\ UNCHANGED cs_ret
    /\ UNCHANGED <<cs_state, cs_user_input, cs_response, cs_brief, cs_context,
                   cs_llm_calls, restCs>>

CsNext ==
    \/ CsBegin
    \/ CsRespond
    \/ CsConfirm

----------------------------------------------------------------------------
(* main_graph.py: the ResearchOrchestrator graph                            *)
(* agents/clarification_agent.py: ask_clarification, check_if_clarified     *)

MaxBatchRuns == 2
MaxGivenCount == 6

\* A message of the orchestrator's transcript. id 0 stands for id None: the
\* message has not passed through add_messages yet.
Msg(type, content, id) == [type |-> type, content |-> content, id |-> id]

CannedGreeting ==
    "Hello! I'm here to help you with your research. Could you please tell me what topic you'd like me to research?"

MaxId(msgs) ==
    LET RECURSIVE Mx(_)
        Mx(i) == IF i > Len(msgs) THEN 0
                 ELSE LET r == Mx(i + 1) IN IF msgs[i].id > r THEN msgs[i].id ELSE r
    IN  Mx(1)

\* add_messages gives every message without an id a fresh one.
AssignIds(msgs, base) ==
    [i \in 1..Len(msgs) |->
        IF msgs[i].id = 0 THEN [msgs[i] EXCEPT !.id = base + i] ELSE msgs[i]]

\* add_messages(left, right): a message of right replaces the message of left
\* with the same id and is appended when there is none.
add_messages(left, right) ==
    LET l == AssignIds(left, MaxId(left \o right))
        r == AssignIds(right, MaxId(l \o right))
        RECURSIVE M(_, _)
        M(merged, i) ==
            IF i > Len(r) THEN merged
            ELSE LET same == { j \in 1..Len(merged) : merged[j].id = r[i].id }
                 IN  IF same # {}
                     THEN M([merged EXCEPT ![CHOOSE j \in same : TRUE] = r[i]], i + 1)
                     ELSE M(Append(merged, r[i]), i + 1)
    IN  M(l, 1)

\* The update of the graph state by what a node returned: messages go through
\* add_messages, every other key is overwritten.
OrMerge(state, update) ==
    [k \in DOMAIN state \cup DOMAIN update |->
        IF k \notin DOMAIN update THEN state[k]
        ELSE IF k = "messages"
        THEN add_messages(Get(state, "messages", <<>>), update[k])
        ELSE update[k]]

\* An ask_clarification that greets when the transcript is empty.
ask_clarification_greets_on_empty(state, reply) ==
    LET clarification_count == Get(state, "clarification_count", PyInt(0)).n
        messages == IF state["messages"] = <<>>
                    THEN << Msg("system", "initial prompt", 0) >>
                    ELSE state["messages"]
        greets == state["messages"] = <<>>
        response == IF greets THEN Msg("ai", CannedGreeting, 0) ELSE Msg("ai", reply, 0)
    IN  [update |-> Merge(state, [messages |-> Append(messages, response),
                                  clarification_count |-> PyInt(clarification_count + 1)]),
         calls |-> IF greets THEN 0 ELSE 1]

\* ClarificationAgent.ask_clarification: the state returned and the number of
\* self.llm.invoke calls made, the model answering `reply`.
ask_clarification(state, reply) ==
    LET clarification_count == Get(state, "clarification_count", PyInt(0)).n
        messages == IF state["messages"] = <<>>
                    THEN << Msg("system", "initial prompt", 0) >>
                    ELSE state["messages"]
        greets == clarification_count = 0
        response == IF greets THEN Msg("ai", CannedGreeting, 0) ELSE Msg("ai", reply, 0)
    IN  [update |-> Merge(state, [messages |-> Append(messages, response),
                                  clarification_count |-> PyInt(clarification_count + 1)]),
         calls |-> IF greets THEN 0 ELSE 1]

\* The brief the structured model call of _finalize_brief produces.
FinalizedBrief ==
    [t |-> "brief", topic |-> "topic", objectives |-> <<"a">>,
     scope |-> "scope", key_questions |-> <<"a", "b">>, constraints |-> <<>>]

\* ClarificationAgent._finalize_brief: one model call.
finalize_brief(state) ==
    Merge(state, [messages |-> Append(state["messages"],
                                      Msg("ai", "Great! I've prepared the research brief", 0)),
                  research_brief |-> FinalizedBrief,
                  is_clarified |-> PyBool(TRUE)])

\* ClarificationAgent.check_if_clarified, the model answering READY or not.
check_if_clarified(state, ready) ==
    IF Get(state, "clarification_count", PyInt(0)).n >= 5
    THEN [update |-> finalize_brief(state), calls |-> 1]
    ELSE IF ready
    THEN [update |-> finalize_brief(state), calls |-> 2]
    ELSE [update |-> state, calls |-> 1]

\* ResearchOrchestrator.clarification_node
clarification_node(state, reply) ==
    LET clarification_state ==
            [messages |-> Get(state, "messages", <<>>),
             research_brief |-> Get(state, "research_brief", PyNone),
             is_clarified |-> Get(state, "is_clarified", PyBool(FALSE)),
             clarification_count |-> Get(state, "clarification_count", PyInt(0))]
        result == ask_clarification(clarification_state, reply)
    IN  [kind |-> "return",
         update |-> Merge(state, [messages |-> result.update["messages"],
                                  clarification_count |-> result.update["clarification_count"],
                                  current_phase |-> PyStr("clarification")]),
         calls |-> result.calls]

\* A check node that asks the model whatever the last message is.
check_clarification_node_always(state, ready) ==
    LET clarification_state ==
            [messages |-> state["messages"],
             research_brief |-> Get(state, "research_brief", PyNone),
             is_clarified |-> Get(state, "is_clarified", PyBool(FALSE)),
             clarification_count |-> Get(state, "clarification_count", PyInt(0))]
        result == check_if_clarified(clarification_state, ready)
    IN  [kind |-> "return",
         update |-> Merge(state, [messages |-> result.update["messages"],
                                  research_brief |-> result.update["research_brief"],
                                  is_clarified |-> result.update["is_clarified"],
                                  clarification_count |-> result.update["clarification_count"]]),
         calls |-> result.calls]

\* ResearchOrchestrator.check_clarification_node: the check runs only when the
\* last message is a HumanMessage.
check_clarification_node(state, ready) ==
    IF "messages" \notin DOMAIN state
    THEN [kind |-> "raise", update |-> EmptyDict, calls |-> 0]
    ELSE IF state["messages"] # <<>>
            /\ state["messages"][Len(state["messages"])].type = "human"
    THEN check_clarification_node_always(state, ready)
    ELSE [kind |-> "return", update |-> state, calls |-> 0]

\* A router that lets the count pass one clarification more.
should_continue_clarification_gt(state) ==
    IF Truthy(Get(state, "is_clarified", PyBool(FALSE))) THEN "proceed"
    ELSE IF Get(state, "clarification_count", PyInt(0)).n > 5 THEN "proceed"
    ELSE "continue"

\* ResearchOrchestrator.should_continue_clarification
should_continue_clarification(state) ==
    IF Truthy(Get(state, "is_clarified", PyBool(FALSE))) THEN "proceed"
    ELSE IF Get(state, "clarification_count", PyInt(0)).n >= 5 THEN "proceed"
    ELSE "continue"

\* ResearchOrchestrator.research_node: ReactResearchAgent.research reads
\* research_brief.topic, which raises AttributeError on None; otherwise the
\* messages of the ReAct run follow the transcript.
research_node(state) ==
    IF state["research_brief"] = PyNone
    THEN [kind |-> "raise", update |-> EmptyDict, calls |-> 0]
    ELSE [kind |-> "return",
          update |-> Merge(state, [messages |-> state["messages"]
                                       \o << Msg("human", "Please conduct comprehensive research", 0),
                                             Msg("ai", "findings", 0) >>,
                                   current_phase |-> PyStr("research")]),
          calls |-> 0]

\* ResearchOrchestrator.generate_report_node, the model writing `report`.
generate_report_node(state, report) ==
    IF state["research_brief"] = PyNone
    THEN [kind |-> "raise", update |-> EmptyDict, calls |-> 0]
    ELSE [kind |-> "return",
          update |-> Merge(state, [research_report |-> PyStr(report),
                                   messages |-> Append(state["messages"], Msg("ai", report, 0)),
                                   current_phase |-> PyStr("complete")]),
          calls |-> 0]

\* _build_graph: the node that follows `node` once it has returned `state`.
or_successor(node, state) ==
    CASE node = START -> "clarification"
      [] node = "clarification" -> "check_clarification"
      [] node = "check_clarification" ->
            (IF should_continue_clarification(state) = "continue"
             THEN "clarification" ELSE "research")
      [] node = "research" -> "generate_report"
      [] node = "generate_report" -> END

\* The briefs run_batch may build from its arguments.
BatchBriefs ==
    { [t |-> "brief", topic |-> "topic", objectives |-> o,
       scope |-> "Comprehensive research within the defined objectives",
       key_questions |-> q, constraints |-> <<>>] :
        o \in { <<>>, <<"a">> }, q \in { <<>>, <<"a", "b">> } }

\* run_batch, lines 207-214
BatchState(research_brief) ==
    [messages |-> <<>>, research_brief |-> research_brief,
     is_clarified |-> PyBool(TRUE), clarification_count |-> PyInt(0),
     research_report |-> PyNone, current_phase |-> PyStr("research")]

\* run_interactive, lines 145-162: the initial state with the first user message.
InteractiveState ==
    [messages |-> << Msg("human", "topic", 0) >>, research_brief |-> PyNone,
     is_clarified |-> PyBool(FALSE), clarification_count |-> PyInt(0),
     research_report |-> PyNone, current_phase |-> PyStr("clarification")]

\* The states a caller of create_app() may invoke the graph with.
InvokeStates ==
    { [k \in {"messages", "research_brief"} \cup ks |->
          CASE k = "messages" -> m
            [] k = "research_brief" -> b
            [] k = "is_clarified" -> PyBool(c)
            [] k = "clarification_count" -> PyInt(n)] :
        ks \in SUBSET {"is_clarified", "clarification_count"},
        m \in { <<>>, << Msg("human", "topic", 0) >> },
        b \in { PyNone, FinalizedBrief },
        c \in BOOLEAN,
        n \in 0..MaxGivenCount }

OrReplies == {"Which aspects?", "I have enough information."}

OrReports == {"report", ""}

OrInit ==
    /\ or_mode \in {"run_batch", "run_interactive", "invoke"}
    /\ or_brief \in (IF or_mode = "run_batch" THEN BatchBriefs ELSE {PyNone})
    /\ or_state \in (CASE or_mode = "run_batch" -> {BatchState(or_brief)}
                       [] or_mode = "run_interactive" -> {InteractiveState}
                       [] or_mode = "invoke" -> InvokeStates)
    /\ or_node = START
    /\ or_status = "running"
    /\ or_trace = <<>>
    /\ or_llm_calls = 0
    /\ or_batches = IF or_mode = "run_batch" THEN 1 ELSE 0
    /\ or_ret = PyNone

OrIdle ==
    /\ or_mode = "idle"
    /\ or_brief = PyNone
    /\ or_state = EmptyDict
    /\ or_node = "idle"
    /\ or_status = "idle"
    /\ or_trace = <<>>
    /\ or_llm_calls = 0
    /\ or_batches = 0
    /\ or_ret = PyNone

\* graph.invoke(state, config): the input is written to the thread's channels
\* and the run enters at the entry point.
OrEnter ==
    /\ or_node = START
    /\ or_status = "running"
    /\ or_state' = [or_state EXCEPT !["messages"] = add_messages(<<>>, @)]
    /\ or_node' = or_successor(START, or_state)
    /\ UNCHANGED <<or_mode, or_brief, or_status, or_trace, or_llm_calls,
                   or_batches, or_ret, restOr>>

\* A node has run: its update is merged and the run moves on, or the run ends
\* in the node's exception.
OrStep(r) ==
    /\ or_trace' = Append(or_trace, or_node)
    /\ or_llm_calls' = or_llm_calls + r.calls
    /\ IF r.kind = "raise"
       THEN /\ or_status' = "error"
            /\ UNCHANGED <<or_state, or_node, or_ret>>
       ELSE LET merged == OrMerge(or_state, r.update)
                next == or_successor(or_node, merged)
            IN  /\ or_state' = merged
                /\ or_node' = next
                /\ or_status' = IF next = END THEN "done" ELSE "running"
                /\ or_ret' = IF next = END /\ or_mode = "run_batch"
                             THEN Get(merged, "research_report", PyStr("No report generated"))
                             ELSE or_ret
    /\ UNCHANGED <<or_mode, or_brief, or_batches, restOr>>

OrClarification ==
    /\ or_node = "clarification"
    /\ or_status = "running"
    /\ \E reply \in OrReplies :
         /\ Get(or_state, "clarification_count", PyInt(0)).n = 0
               => reply = "Which aspects?"
         /\ OrStep(clarification_node(or_state, reply))

OrCheckClarification ==
    /\ or_node = "check_clarification"
    /\ or_status = "running"
    /\ \E ready \in BOOLEAN :
         OrStep(check_clarification_node(or_state, ready))

OrResearch ==
    /\ or_node = "research"
    /\ or_status = "running"
    /\ OrStep(research_node(or_state))

OrGenerateReport ==
    /\ or_node = "generate_report"
    /\ or_status = "running"
    /\ \E report \in OrReports :
         OrStep(generate_report_node(or_state, report))

\* run_batch called again on the same orchestrator: the same thread id, the
\* input written over the thread's checkpointed state.
OrBatchAgain ==
    /\ or_mode = "run_batch"
    /\ or_status = "done"
    /\ or_batches < MaxBatchRuns
    /\ \E research_brief \in BatchBriefs :
         /\ or_brief' = research_brief
         /\ or_state' = OrMerge(or_state, BatchState(research_brief))
    /\ or_node' = START
    /\ or_status' = "running"
    /\ or_trace' = <<>>
    /\ or_llm_calls' = 0
    /\ or_batches' = or_batches + 1
    /\ or_ret' = PyNone
    /\ UNCHANGED <<or_mode, restOr>>

OrNext ==
    \/ OrEnter
    \/ OrClarification
    \/ OrCheckClarification
    \/ OrResearch
    \/ OrGenerateReport
    \/ OrBatchAgain

----------------------------------------------------------------------------
(* graph.py: the workflow around clarification_agent.py's ClarificationAgent *)

\* The recursion limit of graph.invoke when the config sets none.
recursion_limit == 25

\* HumanMessage(content=user_input), as run_research_agent passes it: an
\* object, not a dict; it has no get method.
HumanMessageObject(content) == [class |-> "HumanMessage", content |-> content]

IsDict(message) == "role" \in DOMAIN message

\* The inputs the graph is invoked with: the empty input that is to trigger
\* the greeting (graph.py:91-94), a user message as run_research_agent builds
\* it (graph.py:113-119), and a user message given as a dict.
GwInputs ==
    { [messages |-> <<>>, iteration_count |-> PyInt(0)],
      [messages |-> << HumanMessageObject(<<"topic">>) >>],
      [messages |-> << Message("user", <<"topic">>) >>],
      [messages |-> << Message("assistant", Greeting), Message("user", <<"topic">>) >>] }

GwInit ==
    /\ gw_state \in GwInputs
    /\ gw_node = START
    /\ gw_status = "running"
    /\ gw_steps = 0
    /\ gw_greeted = FALSE

GwIdle ==
    /\ gw_state = EmptyDict
    /\ gw_node = "idle"
    /\ gw_status = "idle"
    /\ gw_steps = 0
    /\ gw_greeted = FALSE

\* create_research_graph: the node that follows the clarification node.
gw_successor(state) ==
    LET branch == route_next_step(state)
    IN  CASE branch = "clarification" -> "clarification"
          [] branch = "research" -> "research"
          [] branch = "end" -> END

\* app.invoke: the run enters at the clarification node.
GwEnter ==
    /\ gw_node = START
    /\ gw_status = "running"
    /\ gw_node' = "clarification"
    /\ UNCHANGED <<gw_state, gw_status, gw_steps, gw_greeted, restGw>>

\* One execution of the clarification node on a transcript of dicts, and the
\* routing after it.
GwClarification ==
    /\ gw_node = "clarification"
    /\ gw_status = "running"
    /\ gw_steps < recursion_limit
    /\ \A i \in 1..Len(gw_state["messages"]) : IsDict(gw_state["messages"][i])
    /\ \E reply \in ModelReplies, brief_reply \in BriefReplies :
         /\ ~LastIsUser(gw_state) => (reply = NoReply /\ brief_reply = [syntax |-> "invalid"])
         /\ LET r == ClarificationAgent_call(gw_state, reply, brief_reply)
                merged == Merge(gw_state, r.ret)
                next == gw_successor(merged)
            IN  /\ gw_state' = merged
                /\ gw_node' = next
                /\ gw_status' = CASE next = END -> "done"
                                  [] next = "research" -> "research"
                                  [] OTHER -> "running"
    /\ gw_steps' = gw_steps + 1
    /\ gw_greeted' = (gw_greeted \/ Len(gw_state["messages"]) = 0)
    /\ UNCHANGED restGw

\* The clarification node on a transcript that ends with a HumanMessage
\* object: last_message.get("role") raises AttributeError.
GwClarificationRaises ==
    /\ gw_node = "clarification"
    /\ gw_status = "running"
    /\ gw_steps < recursion_limit
    /\ Len(gw_state["messages"]) > 0
    /\ ~IsDict(gw_state["messages"][Len(gw_state["messages"])])
    /\ gw_status' = "error"
    /\ gw_steps' = gw_steps + 1
    /\ UNCHANGED <<gw_state, gw_node, gw_greeted, restGw>>

\* The run has made recursion_limit steps without reaching END: graph.invoke
\* raises GraphRecursionError.
GwRecursionError ==
    /\ gw_status = "running"
    /\ gw_node # START
    /\ gw_steps = recursion_limit
    /\ gw_status' = "error"
    /\ UNCHANGED <<gw_state, gw_node, gw_steps, gw_greeted, restGw>>

GwNext ==
    \/ GwEnter
    \/ GwClarification
    \/ GwClarificationRaises
    \/ GwRecursionError

----------------------------------------------------------------------------
(* agents/clarification_agent.py: check_if_clarified called on its own      *)

UpperChar(c) ==
    CASE c = "r" -> "R"
      [] c = "e" -> "E"
      [] c = "a" -> "A"
      [] c = "d" -> "D"
      [] c = "y" -> "Y"
      [] c = "n" -> "N"
      [] c = "o" -> "O"
      [] c = "t" -> "T"
      [] c = "l" -> "L"
      [] OTHER -> c

\* str.upper()
Upper(s) == [i \in 1..Len(s) |-> UpperChar(s[i])]

\* needle in text, both sequences of characters
InText(needle, text) ==
    \E i \in 0..(Len(text) - Len(needle)) :
        SubSeq(text, i + 1, i + Len(needle)) = needle

\* A readiness test that looks for the word as the model was told to write it.
ReadyIn_exact_case(content) == InText(<<"R", "E", "A", "D", "Y">>, content)

\* line 101: "READY" in response.content.upper()
ReadyIn(content) == InText(<<"R", "E", "A", "D", "Y">>, Upper(content))

\* What the model may answer to the readiness prompt.
ReadinessReplies ==
    { <<"R", "E", "A", "D", "Y">>,
      <<"r", "e", "a", "d", "y">>,
      <<"R", "e", "a", "d", "y", ".">>,
      <<"N", "E", "E", "D", "_", "M", "O", "R", "E">>,
      <<"n", "o", "t", " ", "r", "e", "a", "d", "y">>,
      <<"a", "l", "r", "e", "a", "d", "y">>,
      <<"R", "E", "A", "D">>,
      <<>> }

\* The ClarificationStates check_if_clarified may be called with.
CqInputs ==
    { [k \in {"messages", "research_brief", "is_clarified"} \cup ks |->
          CASE k = "messages" -> m
            [] k = "research_brief" -> b
            [] k = "is_clarified" -> PyBool(b # PyNone)
            [] k = "clarification_count" -> PyInt(n)] :
        ks \in SUBSET {"clarification_count"},
        m \in { <<>>,
                << Msg("human", "topic", 1) >>,
                << Msg("human", "topic", 1), Msg("ai", "Which aspects?", 2),
                   Msg("human", "all of them", 3) >> },
        b \in { PyNone, FinalizedBrief },
        n \in 0..MaxGivenCount }

CqInit ==
    /\ cq_state \in CqInputs
    /\ cq_pc = "start"
    /\ cq_reply = <<>>
    /\ cq_ret = EmptyDict

CqIdle ==
    /\ cq_state = EmptyDict
    /\ cq_pc = "idle"
    /\ cq_reply = <<>>
    /\ cq_ret = EmptyDict

\* check_if_clarified(state), the model answering the readiness prompt with
\* `content` when it is asked.
CqCheck ==
    /\ cq_pc = "start"
    /\ \E content \in ReadinessReplies :
         /\ cq_reply' = content
         /\ cq_ret' = check_if_clarified(cq_state, ReadyIn(content)).update
    /\ cq_pc' = "returned"
    /\ UNCHANGED <<cq_state, restCq>>

CqNext ==
    \/ CqCheck

----------------------------------------------------------------------------
(* research_agent/graph.py: the clarify -> research graph, its nodes being  *)
(* clarify_research_scope and conduct_research as modelled above            *)

\* create_research_graph: the node that follows `node` once it has returned
\* with the state `state`.
rg_successor(node, state) ==
    CASE node = START -> "clarify"
      [] node = "clarify" -> should_continue_to_research(state)
      [] node = "research" -> END

\* The states the graph may be invoked with: the initial_state of run_agent.py
\* (a request, an empty brief, clarification not complete) and the states of
\* callers that come with clarification complete or a brief of their own.
RgInputs ==
    { [messages |-> m, research_brief |-> PyStr(b),
       clarification_complete |-> PyBool(c), final_report |-> PyStr("")] :
        m \in { <<>>, << Message("human", "topic") >> },
        b \in { "", "brief" },
        c \in BOOLEAN }
    \cup { [messages |-> <<>>, clarification_complete |-> PyBool(TRUE)] }

\* The update of the graph state by what a node returned: messages are added
\* to the transcript (add_messages), every other key is overwritten.
RgMerge(state, update) ==
    [k \in DOMAIN state \cup DOMAIN update |->
        IF k \notin DOMAIN update THEN state[k]
        ELSE IF k = "messages"
        THEN Get(state, "messages", <<>>) \o update[k]
        ELSE update[k]]

RgInit ==
    /\ rg_input \in RgInputs
    /\ rg_state = rg_input
    /\ rg_node = START
    /\ rg_status = "running"
    /\ rg_trace = <<>>

RgIdle ==
    /\ rg_input = EmptyDict
    /\ rg_state = EmptyDict
    /\ rg_node = "idle"
    /\ rg_status = "idle"
    /\ rg_trace = <<>>

\* graph.invoke: the run enters at the entry point.
RgEnter ==
    /\ rg_node = START
    /\ rg_status = "running"
    /\ rg_node' = rg_successor(START, rg_state)
    /\ UNCHANGED <<rg_input, rg_state, rg_status, rg_trace, restRg>>

\* The clarify node is called with the graph state.
RgClarifyCall ==
    /\ rg_node = "clarify"
    /\ rg_status = "running"
    /\ rg_status' = "in_node"
    /\ cs_state' = rg_state
    /\ cs_pc' = "start"
    /\ UNCHANGED <<rg_input, rg_state, rg_node, rg_trace>>
    /\ UNCHANGED <<cs_user_input, cs_response, cs_brief, cs_context, cs_confirmation,
                   cs_llm_calls, cs_ret>>
    /\ UNCHANGED <<routeVars, wfVars, caVars, enVars, raVars, swVars, rpVars, fsVars,
                   ogVars, orVars, gwVars, cqVars>>

\* clarify_research_scope has returned: its dict updates the state and the
\* conditional edge picks the next node.
RgClarifyReturn ==
    /\ rg_node = "clarify"
    /\ rg_status = "in_node"
    /\ cs_pc = "returned"
    /\ LET merged == RgMerge(rg_state, cs_ret)
       IN  /\ rg_state' = merged
           /\ rg_node' = rg_successor("clarify", merged)
    /\ rg_status' = "running"
    /\ rg_trace' = Append(rg_trace, "clarify")
    /\ cs_state' = EmptyDict
    /\ cs_pc' = "idle"
    /\ cs_user_input' = <<>>
    /\ cs_response' = <<>>
    /\ cs_brief' = 0
    /\ cs_context' = <<>>
    /\ cs_confirmation' = <<>>
    /\ cs_llm_calls' = 0
    /\ cs_ret' = EmptyDict
    /\ UNCHANGED rg_input
    /\ UNCHANGED <<routeVars, wfVars, caVars, enVars, raVars, swVars, rpVars, fsVars,
                   ogVars, orVars, gwVars, cqVars>>

\* The research node is called with the graph state.
RgResearchCall ==
    /\ rg_node = "research"
    /\ rg_status = "running"
    /\ rg_status' = "in_node"
    /\ ra_state' = rg_state
    /\ ra_pc' = "entry"
    /\ UNCHANGED <<rg_input, rg_state, rg_node, rg_trace>>
    /\ UNCHANGED <<ra_messages, ra_iteration, ra_tool_calls, ra_next, ra_invocations,
                   ra_searches, ra_varied, ra_ret>>
    /\ UNCHANGED <<routeVars, wfVars, caVars, enVars, csVars, swVars, rpVars, fsVars,
                   ogVars, orVars, gwVars, cqVars>>

\* conduct_research has returned: its dict updates the state and the run ends.
RgResearchReturn ==
    /\ rg_node = "research"
    /\ rg_status = "in_node"
    /\ ra_pc = "done"
    /\ rg_state' = RgMerge(rg_state,
          [k \in DOMAIN ra_ret |->
              IF k = "messages"
              THEN [i \in 1..Len(ra_ret[k]) |-> Message("ai", ra_ret[k][i].content)]
              ELSE PyStr(ra_ret[k])])
    /\ rg_node' = rg_successor("research", rg_state)
    /\ rg_status' = "done"
    /\ rg_trace' = Append(rg_trace, "research")
    /\ UNCHANGED <<rg_input, restRg>>

\* conduct_research has raised: the invocation ends in the exception.
RgResearchRaises ==
    /\ rg_node = "research"
    /\ rg_status = "in_node"
    /\ ra_pc = "raised"
    /\ rg_status' = "error"
    /\ UNCHANGED <<rg_input, rg_state, rg_node, rg_trace, restRg>>

RgNext ==
    \/ RgEnter
    \/ RgClarifyCall
    \/ CsBegin
    \/ CsRespond
    \/ CsConfirm
    \/ RgClarifyReturn
    \/ RgResearchCall
    \/ RaEntry
    \/ RaInvoke
    \/ RaExhausted
    \/ RaTool
    \/ RaFinal
    \/ RgResearchReturn
    \/ RgResearchRaises

----------------------------------------------------------------------------
(* Specifications                                                          *)

InitRoute == RouteInit /\ WfIdle /\ CaIdle /\ EnIdle /\ RaIdle /\ SwIdle
    /\ RpIdle /\ FsIdle /\ OgIdle /\ CsIdle /\ OrIdle /\ GwIdle /\ CqIdle
    /\ RgIdle
SpecRoute == InitRoute /\ [][RouteNext]_vars

InitWf == WfInit /\ RouteIdle /\ CaIdle /\ EnIdle /\ RaIdle /\ SwIdle
    /\ RpIdle /\ FsIdle /\ OgIdle /\ CsIdle /\ OrIdle /\ GwIdle /\ CqIdle
    /\ RgIdle
SpecWf == InitWf /\ [][WfNext]_vars

InitCa == CaInit /\ RouteIdle /\ WfIdle /\ EnIdle /\ RaIdle /\ SwIdle
    /\ RpIdle /\ FsIdle /\ OgIdle /\ CsIdle /\ OrIdle /\ GwIdle /\ CqIdle
    /\ RgIdle
SpecCa == InitCa /\ [][CaNext]_vars

InitEn == EnInit /\ RouteIdle /\ WfIdle /\ CaIdle /\ RaIdle /\ SwIdle
    /\ RpIdle /\ FsIdle /\ OgIdle /\ CsIdle /\ OrIdle /\ GwIdle /\ CqIdle
    /\ RgIdle
SpecEn == InitEn /\ [][EnNext]_vars

InitRa == RaInit /\ RouteIdle /\ WfIdle /\ CaIdle /\ EnIdle /\ SwIdle
    /\ RpIdle /\ FsIdle /\ OgIdle /\ CsIdle /\ OrIdle /\ GwIdle /\ CqIdle
    /\ RgIdle
SpecRa == InitRa /\ [][RaNext]_vars

InitSw == SwInit /\ RouteIdle /\ WfIdle /\ CaIdle /\ EnIdle /\ RaIdle
    /\ RpIdle /\ FsIdle /\ OgIdle /\ CsIdle /\ OrIdle /\ GwIdle /\ CqIdle
    /\ RgIdle
SpecSw == InitSw /\ [][SwNext]_vars

InitRp == RpInit /\ RouteIdle /\ WfIdle /\ CaIdle /\ EnIdle /\ RaIdle
    /\ SwIdle /\ FsIdle /\ OgIdle /\ CsIdle /\ OrIdle /\ GwIdle /\ CqIdle
    /\ RgIdle
SpecRp == InitRp /\ [][RpNext]_vars

InitFs == FsInit /\ RouteIdle /\ WfIdle /\ CaIdle /\ EnIdle /\ RaIdle
    /\ SwIdle /\ RpIdle /\ OgIdle /\ CsIdle /\ OrIdle /\ GwIdle /\ CqIdle
    /\ RgIdle
SpecFs == InitFs /\ [][FsNext]_vars

InitOg == OgInit /\ RouteIdle /\ WfIdle /\ CaIdle /\ EnIdle /\ RaIdle
    /\ SwIdle /\ RpIdle /\ FsIdle /\ CsIdle /\ OrIdle /\ GwIdle /\ CqIdle
    /\ RgIdle
SpecOg == InitOg /\ [][OgNext]_vars

InitCs == CsInit /\ RouteIdle /\ WfIdle /\ CaIdle /\ EnIdle /\ RaIdle
    /\ SwIdle /\ RpIdle /\ FsIdle /\ OgIdle /\ OrIdle /\ GwIdle /\ CqIdle
    /\ RgIdle
SpecCs == InitCs /\ [][CsNext]_vars

InitOr == OrInit /\ RouteIdle /\ WfIdle /\ CaIdle /\ EnIdle /\ RaIdle
    /\ SwIdle /\ RpIdle /\ FsIdle /\ OgIdle /\ CsIdle /\ GwIdle /\ CqIdle
    /\ RgIdle
SpecOr == InitOr /\ [][OrNext]_vars

InitGw == GwInit /\ RouteIdle /\ WfIdle /\ CaIdle /\ EnIdle /\ RaIdle
    /\ SwIdle /\ RpIdle /\ FsIdle /\ OgIdle /\ CsIdle /\ OrIdle /\ CqIdle
    /\ RgIdle
SpecGw == InitGw /\ [][GwNext]_vars

InitCq == CqInit /\ RouteIdle /\ WfIdle /\ CaIdle /\ EnIdle /\ RaIdle
    /\ SwIdle /\ RpIdle /\ FsIdle /\ OgIdle /\ CsIdle /\ OrIdle /\ GwIdle
    /\ RgIdle
SpecCq == InitCq /\ [][CqNext]_vars

InitRg == RgInit /\ RouteIdle /\ WfIdle /\ CaIdle /\ EnIdle /\ RaIdle
    /\ SwIdle /\ RpIdle /\ FsIdle /\ OgIdle /\ CsIdle /\ OrIdle /\ GwIdle
    /\ CqIdle
SpecRg == InitRg /\ [][RgNext]_vars

----------------------------------------------------------------------------
(* Claims about phase routing                                              *)

\* The flag values Python treats as true.
TrueFlags == { PyBool(TRUE), PyInt(1), PyStr("YES"), PyStr("y"), PyStr("no thanks") }

FlagIsTrue ==
    /\ "clarification_complete" \in DOMAIN rt_state
    /\ rt_state["clarification_complete"] \in TrueFlags

\* C1: should_continue_to_research and route_after_clarification return the
\* research branch exactly when the state's clarification_complete flag is
\* truthy, and their clarification branch ("clarify" / "clarification")
\* otherwise, also when the flag is absent from the state.
C1_RouteIffFlag ==
    /\ rt_fn = "should_continue_to_research" =>
          rt_out = (IF FlagIsTrue THEN "research" ELSE "clarify")
    /\ rt_fn = "route_after_clarification" =>
          rt_out = (IF FlagIsTrue THEN "research" ELSE "clarification")

\* A truthy non-boolean sentinel ("no thanks") routed to research.
C1_Witness ==
    /\ rt_fn = "should_continue_to_research"
    /\ "clarification_complete" \in DOMAIN rt_state
    /\ rt_state["clarification_complete"] = PyStr("no thanks")
    /\ rt_out = "research"

StepIsTerminal ==
    /\ "current_step" \in DOMAIN rt_state
    /\ rt_state["current_step"] \in {PyStr("completed"), PyStr("error")}

\* C2 as stated: route_next_step returns "research" exactly when
\* clarification_complete is true and "clarification" otherwise, whatever
\* current_step is.
C2_Original ==
    rt_fn = "route_next_step" =>
        rt_out = (IF FlagIsTrue THEN "research" ELSE "clarification")

\* C2 amended: route_next_step returns "end" when current_step is "completed"
\* or "error"; for every other current_step (clarification, research, absent)
\* it returns "research" exactly when clarification_complete is truthy and
\* "clarification" otherwise.
C2_RouteNextStep ==
    rt_fn = "route_next_step" =>
        rt_out = (IF StepIsTerminal THEN "end"
                  ELSE IF FlagIsTrue THEN "research" ELSE "clarification")

\* A completed run whose flag is true is routed to the end, not to research.
C2_Witness ==
    /\ rt_fn = "route_next_step"
    /\ FlagIsTrue
    /\ StepIsTerminal
    /\ rt_out = "end"

----------------------------------------------------------------------------
(* Claims about the agent.py workflow                                      *)

WfApproved(state) ==
    /\ "clarification_complete" \in DOMAIN state
    /\ state["clarification_complete"] = PyBool(TRUE)

----------------------------------------------------------------------------
(* Claims about clarification_agent.py                                     *)

CaTranscriptEmpty ==
    IF "messages" \in DOMAIN ca_state THEN ca_state["messages"] = <<>> ELSE TRUE

\* C4: ClarificationAgent.__call__, given a state whose messages list is empty
\* or absent, returns exactly one assistant message carrying the fixed,
\* non-empty greeting and current_phase = "clarification", makes no model call
\* and sets neither research_brief nor clarification_complete.
C4_GreetingOnEmpty ==
    (ca_pc \in {"returned", "raised"} /\ CaTranscriptEmpty) =>
        /\ ca_pc = "returned"
        /\ DOMAIN ca_ret = {"messages", "current_phase"}
        /\ Len(ca_ret["messages"]) = 1
        /\ ca_ret["messages"][1].role = "assistant"
        /\ ca_ret["messages"][1].content =
             <<"Hello! I'm here to help you with your research. What topic would you like me to research for you?">>
        /\ ca_ret["current_phase"] = PyStr("clarification")
        /\ ca_calls = 0

\* The call has returned on a state that holds an empty messages list.
C4_Witness ==
    /\ ca_pc = "returned"
    /\ "messages" \in DOMAIN ca_state
    /\ ca_state["messages"] = <<>>
    /\ Len(ca_ret["messages"]) = 1

\* The extraction reply does not yield a ResearchBrief.
CaBriefFails ==
    \/ ca_brief_reply.syntax \in {"invalid", "array"}
    \/ /\ ca_brief_reply.syntax = "object"
       /\ \/ ca_brief_reply.keys # {"topic", "specific_questions", "scope", "output_requirements"}
          \/ ca_brief_reply.questions.t # "list"

CaReplyComplete == \E i \in 1..Len(ca_reply) : ca_reply[i] = "CLARIFICATION_COMPLETE"

\* C10: when the model's reply contains CLARIFICATION_COMPLETE but the
\* extracted brief fails JSON parsing or schema validation, __call__ catches
\* the failure and returns: no research_brief, clarification_complete not set,
\* current_phase = "clarification", and the transcript extended by exactly the
\* model's reply as one assistant message; one error line is printed.
C10_ParseFailureFallsBack ==
    (ca_pc \in {"returned", "raised"} /\ CaReplyComplete /\ CaBriefFails) =>
        /\ ca_pc = "returned"
        /\ DOMAIN ca_ret = {"messages", "current_phase"}
        /\ ca_ret["current_phase"] = PyStr("clarification")
        /\ ca_ret["messages"] =
             ca_state["messages"] \o <<[role |-> "assistant", content |-> ca_reply]>>
        /\ Len(ca_printed) = 1

\* A reply with the sentinel whose brief is a JSON object lacking a required field.
C10_Witness ==
    /\ ca_pc = "returned"
    /\ CaReplyComplete
    /\ ca_brief_reply.syntax = "object"
    /\ ca_brief_reply.keys = {"topic", "scope"}
    /\ ca_calls = 2

----------------------------------------------------------------------------
(* Claims about the startup checks                                         *)

EnEnded == en_pc \in {"done", "crashed"}

\* The required variables that have no value, in declaration order: neither
\* the process environment nor the .env file gives them a non-empty value.
EnUnset ==
    LET required ==
            IF en_prog = "run_agent.py"
            THEN <<"ANTHROPIC_API_KEY", "TAVILY_API_KEY">>
            ELSE <<"OPENAI_API_KEY", "TAVILY_API_KEY">>
        NoValue(var) == en_env[var] \in {"unset", "empty"}
    IN  SelectSeq(required, NoValue)

EnHas(op) == \E i \in 1..Len(en_events) : en_events[i].op = op

\* C5 as stated: in graph.py, app.py and run_agent.py, when some required
\* variables are unset the run ends with a printed error that names exactly
\* those, in declaration order, and starts no session (no graph invocation, no
\* input read); when none is unset the session starts and no error is printed.
C5_Original ==
    (EnEnded /\ en_prog \in {"graph.py", "app.py", "run_agent.py"}) =>
        IF EnUnset # <<>>
        THEN /\ EnHas("print_error")
             /\ en_printed = EnUnset
             /\ ~EnHas("invoke")
             /\ ~EnHas("input")
        ELSE /\ ~EnHas("print_error")
             /\ EnHas("invoke")
             /\ EnHas("input")

\* C6 as stated: example.py, when at least one of its two keys is unset,
\* prints an error that lists exactly the missing names and returns before it
\* constructs the orchestrator or reads the menu choice.
C6_Original ==
    (EnEnded /\ en_prog = "example.py" /\ EnUnset # <<>>) =>
        /\ en_pc = "done"
        /\ EnHas("print_error")
        /\ en_printed = EnUnset
        /\ ~EnHas("construct")
        /\ ~EnHas("input")

\* C6 amended: example.py, when at least one of its two keys is unset, prints
\* one fixed error that names both OPENAI_API_KEY and TAVILY_API_KEY, whichever
\* of them is missing, and returns before it constructs the orchestrator or
\* reads the menu choice.
C6_FixedErrorBeforeMenu ==
    (EnEnded /\ en_prog = "example.py" /\ EnUnset # <<>>) =>
        /\ en_pc = "done"
        /\ EnHas("print_error")
        /\ en_printed = <<"OPENAI_API_KEY", "TAVILY_API_KEY">>
        /\ ~EnHas("construct")
        /\ ~EnHas("input")

\* example.py has ended with only TAVILY_API_KEY missing.
C6_Witness ==
    /\ en_prog = "example.py"
    /\ en_pc = "done"
    /\ EnUnset = <<"TAVILY_API_KEY">>
    /\ EnHas("print_error")

\* C7 as stated: in app.py and run_agent.py the check of the required
\* variables comes before any graph, model client or search client is
\* constructed, and no run ends in an exception raised by a constructor.
C7_Original ==
    en_prog \in {"app.py", "run_agent.py"} =>
        /\ en_pc # "crashed"
        /\ \A i \in 1..Len(en_events) :
              en_events[i].op = "construct" =>
                  \E j \in 1..(i - 1) : en_events[j].op = "check"

----------------------------------------------------------------------------
(* Claims about ReactAgent.conduct_research                                *)

\* The tool calls of the response at position p have all been handled: the
\* for loop over them has ended.
RaHandled(p) ==
    \/ ra_pc \in {"loop", "final", "done"}
    \/ \E q \in (p + 1)..Len(ra_messages) : ra_messages[q].type = "ai"

\* Every handled response is followed by one ToolMessage per tool call, with
\* the call's id, in tool-call order, and by nothing else before the next
\* response; every failed search left the error string under its call's id.
RaToolMessagesInOrder ==
    /\ \A p \in 1..Len(ra_messages) :
          (ra_messages[p].type = "ai" /\ RaHandled(p)) =>
              LET calls == ra_messages[p].tool_calls
              IN  /\ Len(ra_messages) >= p + Len(calls)
                  /\ \A j \in 1..Len(calls) :
                        /\ ra_messages[p + j].type = "tool"
                        /\ ra_messages[p + j].tool_call_id = calls[j].id
                  /\ Len(ra_messages) > p + Len(calls) =>
                        ra_messages[p + Len(calls) + 1].type = "ai"
    /\ \A i \in 1..Len(ra_searches) :
          \E p \in 1..Len(ra_messages) :
              /\ ra_messages[p].type = "tool"
              /\ ra_messages[p].tool_call_id = ra_searches[i].id
              /\ ra_searches[i].outcome = "raise" =>
                    ra_messages[p].content = "Error executing search: error"

\* C8 as stated: every tool call of a model response gets exactly one
\* ToolMessage with its id, in tool-call order, before the next model
\* invocation; a search that raises leaves the error string as the
\* ToolMessage content; no exception leaves the loop, so the remaining tool
\* calls and iterations still run.
C8_Original ==
    /\ ra_pc # "raised"
    /\ RaToolMessagesInOrder

\* The part of C8 that the code keeps: as long as every tool call carries a
\* "query" argument, the ToolMessages are complete and in order and no
\* exception leaves the loop.
C8_WithQueryOnly ==
    (\A p \in 1..Len(ra_messages) :
        \A j \in 1..Len(ra_messages[p].tool_calls) :
            ra_messages[p].tool_calls[j].has_query)
    => C8_Original

----------------------------------------------------------------------------
(* Claims about TavilySearchTool.search_web                                *)

\* C9: search_web never raises. When the client call fails it returns a dict
\* with an "error" text, the original query and an empty results list. When
\* the client returns a response, it returns the query, the response's answer
\* ("" when there is none) and one record per API result, in the API's order,
\* each with exactly the fields title, url, content and score, taken from the
\* API result or defaulting to "", "", "" and 0.
C9_SearchNeverRaises ==
    sw_pc \in {"returned", "raised"} =>
        /\ sw_pc = "returned"
        /\ sw_api.kind = "raise" =>
              /\ DOMAIN sw_ret = {"error", "query", "results"}
              /\ sw_ret["error"] = <<"Search failed: ", "timeout">>
              /\ sw_ret["query"] = sw_query
              /\ sw_ret["results"] = <<>>
        /\ sw_api.kind = "dict" =>
              LET given == IF "results" \in DOMAIN sw_api.value
                           THEN sw_api.value["results"] ELSE <<>>
              IN  /\ DOMAIN sw_ret = {"query", "answer", "results"}
                  /\ sw_ret["query"] = sw_query
                  /\ sw_ret["answer"] = (IF "answer" \in DOMAIN sw_api.value
                                         THEN sw_api.value["answer"] ELSE "")
                  /\ Len(sw_ret["results"]) = Len(given)
                  /\ \A i \in 1..Len(given) :
                        /\ DOMAIN sw_ret["results"][i] = {"title", "url", "content", "score"}
                        /\ \A k \in {"title", "url", "content"} :
                              sw_ret["results"][i][k] =
                                  (IF k \in DOMAIN given[i] THEN given[i][k] ELSE "")
                        /\ sw_ret["results"][i]["score"] =
                              (IF "score" \in DOMAIN given[i] THEN given[i]["score"] ELSE 0)

\* A failed client call has been turned into the error dict.
C9_Witness ==
    /\ sw_pc = "returned"
    /\ sw_api.kind = "raise"
    /\ "error" \in DOMAIN sw_ret

----------------------------------------------------------------------------
(* Claims about prompt and brief rendering                                 *)

IsBullet(line) == Len(line) = 2 /\ line[1] = "-"

\* The items of the bullet list that follows the first line `header` of a text.
BulletSection(text, header) ==
    LET h == CHOOSE i \in 1..Len(text) :
                 text[i] = header /\ \A j \in 1..(i - 1) : text[j] # header
        n == CHOOSE k \in 0..(Len(text) - h) :
                 /\ \A j \in 1..k : IsBullet(text[h + j])
                 /\ h + k + 1 > Len(text) \/ ~IsBullet(text[h + k + 1])
    IN  [j \in 1..n |-> text[h + j][2]]

\* The items of the comma-separated list on the line that starts with `label`.
CommaSection(text, label) ==
    LET h == CHOOSE i \in 1..Len(text) : Len(text[i]) > 0 /\ text[i][1] = label
        rest == Tail(text[h])
    IN  [j \in 1..((Len(rest) + 1) \div 2) |-> rest[2 * j - 1]]

\* C11: for a brief with N key questions, N >= 0, the system prompt of
\* ReactResearchAgent._create_system_prompt, the brief text of agent.py's
\* clarification_agent and the brief block of research_agent.py's
\* ResearchAgent each list all N questions verbatim, each once and in the
\* brief's order: the list read back from the rendered text is the brief's.
C11_AllQuestionsRendered ==
    rp_pc = "returned" =>
        /\ rp_fn = "_create_system_prompt" =>
             BulletSection(rp_out, <<"**Key Questions to Answer:**">>)
                 = rp_brief.key_questions
        /\ rp_fn = "brief_text" =>
             BulletSection(rp_out, <<"Key Questions to Answer:">>)
                 = rp_brief.key_questions
        /\ rp_fn = "brief_block" =>
             /\ CommaSection(rp_out, "Questions:") = rp_brief.specific_questions
             /\ \E i \in 1..Len(rp_out) :
                   rp_out[i] = <<"Questions:">> \o Join(rp_brief.specific_questions, ",")

\* A system prompt rendered from a brief with four questions, one of them
\* repeated and one equal to an objective.
C11_Witness ==
    /\ rp_pc = "returned"
    /\ rp_fn = "_create_system_prompt"
    /\ rp_brief.key_questions = <<"a", "b", "b", "a">>
    /\ rp_brief.objectives = <<"a">>
    /\ BulletSection(rp_out, <<"**Key Questions to Answer:**">>) = <<"a", "b", "b", "a">>

\* C12: for a brief with N key questions, N > 3 included, the initial research
\* request rendered by ReactResearchAgent.research contains every one of the N
\* key questions.
C12_Original ==
    (rp_pc = "returned" /\ rp_fn = "initial_message") =>
        \A i \in 1..Len(rp_brief.key_questions) :
            Contains(rp_out[1], rp_brief.key_questions[i])

\* The questions listed after the words "Answer these key questions:".
ListedQuestions(line) ==
    LET p == CHOOSE i \in 1..Len(line) : line[i] = "Answer these key questions:"
        rest == SubSeq(line, p + 1, Len(line))
    IN  [j \in 1..((Len(rest) + 1) \div 2) |-> rest[2 * j - 1]]

\* What the code does: the request lists the first min(N, 3) key questions, in
\* the brief's order, and no others.
C12_FirstThreeQuestions ==
    (rp_pc = "returned" /\ rp_fn = "initial_message") =>
        LET n == Len(rp_brief.key_questions)
        IN  /\ Len(rp_out) = 1
            /\ ListedQuestions(rp_out[1]) =
                  SubSeq(rp_brief.key_questions, 1, IF n < 3 THEN n ELSE 3)

----------------------------------------------------------------------------
(* Claims about format_search_results                                      *)

\* The lines of block number i of a formatted text.
FsBlock(i) == SubSeq(fs_ret, 5 * (i - 1) + 1, 5 * i)

\* C13: format_search_results returns "No search results found." for the empty
\* list and otherwise exactly one block per result, numbered 1..n in input
\* order; the content part of a block is the first min(length, 500) characters
\* of its result's content, so content of at most 500 characters is not cut.
C13_OneBlockPerResult ==
    fs_pc = "returned" =>
        IF fs_results = <<>>
        THEN fs_ret = << <<"No search results found.">> >>
        ELSE /\ Len(fs_ret) = 5 * Len(fs_results)
             /\ \A i \in 1..Len(fs_results) :
                  LET result == fs_results[i]
                      block == FsBlock(i)
                  IN  /\ block[1] = <<"Result", i, ":">>
                      /\ block[2][1] = "  Title:"
                      /\ "title" \in DOMAIN result => block[2][2] = result["title"]
                      /\ block[3][1] = "  URL:"
                      /\ "url" \in DOMAIN result => block[3][2] = result["url"]
                      /\ block[4][1] = "  Content:"
                      /\ block[5] = <<>>
                      /\ "content" \in DOMAIN result =>
                           LET content == result["content"]
                               part == block[4][2]
                           IN  /\ Len(part) = (IF Len(content) < 500
                                               THEN Len(content) ELSE 500)
                               /\ \A j \in 1..Len(part) : part[j] = content[j]
                               /\ Len(content) <= 500 => part = content

\* Two results formatted, the first with content of exactly 500 characters and
\* the second with more: the first is whole, the second cut.
C13_Witness ==
    /\ fs_pc = "returned"
    /\ Len(fs_results) = 2
    /\ "content" \in DOMAIN fs_results[1]
    /\ Len(fs_results[1]["content"]) = 500
    /\ FsBlock(1)[4][2] = fs_results[1]["content"]
    /\ "content" \in DOMAIN fs_results[2]
    /\ Len(fs_results[2]["content"]) = 501
    /\ Len(FsBlock(2)[4][2]) = 500

----------------------------------------------------------------------------
(* Claims about the research_agent.py graph                                *)

\* C14: in the research_agent.py graph every execution of the clarification
\* node or of the research node extends the transcript by exactly one
\* assistant message: the earlier messages stay, in their order, and none of
\* them appears a second time.
C14_Original ==
    [][ og_runs' # og_runs =>
          \E content \in {"Which scope?", "CLARIFICATION_COMPLETE summary",
                          "Research Complete: report", "Research Complete: "} :
              og_messages' = Append(og_messages, Message("assistant", content))
      ]_vars

\* What does hold: every earlier message is still there, in order, as a prefix
\* of the new transcript.
C14_PrefixKept ==
    [][ og_runs' # og_runs =>
          /\ Len(og_messages') >= Len(og_messages)
          /\ SubSeq(og_messages', 1, Len(og_messages)) = og_messages
      ]_vars

----------------------------------------------------------------------------
(* Claims about clarify_research_scope                                     *)

\* The confirmations that read "yes" or "y" once lowercased, spelled out.
ApprovingConfirmations ==
    { <<"y">>, <<"Y">>, <<"y", "e", "s">>, <<"Y", "E", "S">>, <<"Y", "e", "s">> }

CsAccepted ==
    /\ cs_pc = "returned"
    /\ "research_brief" \in DOMAIN cs_ret
    /\ cs_ret["research_brief"] = PyInt(cs_brief)
    /\ cs_ret["clarification_complete"] = PyBool(TRUE)

\* C15: clarify_research_scope accepts the generated brief, returning it with
\* clarification_complete = True, if and only if the confirmation lowercased is
\* exactly "yes" or "y": "YES" and "y" approve; "", "no thanks" and "yes "
\* with a trailing blank do not.
C15_AcceptIffYes ==
    [][ (cs_pc = "confirm" /\ cs_confirmation' # cs_confirmation) =>
          LET confirmation == cs_confirmation'[Len(cs_confirmation')]
          IN  /\ CsAccepted' <=> confirmation \in ApprovingConfirmations
              /\ confirmation \in { <<"Y", "E", "S">>, <<"y">> } => CsAccepted'
              /\ confirmation \in { <<>>, <<"y", "e", "s", " ">>,
                                    <<"n", "o", " ", "t", "h", "a", "n", "k", "s">> }
                   => (cs_pc' # "returned" /\ cs_ret' = EmptyDict)
      ]_vars

\* A call in which "yes " was turned down, the scope was clarified again and
\* "YES" then accepted the second brief.
C15_Witness ==
    /\ cs_pc = "returned"
    /\ cs_confirmation = << <<"y", "e", "s", " ">>, <<"Y", "E", "S">> >>
    /\ cs_brief = 2
    /\ cs_ret["research_brief"] = PyInt(2)
    /\ cs_ret["clarification_complete"] = PyBool(TRUE)

----------------------------------------------------------------------------
(* Claims about the orchestrator graph                                     *)

OrCount(state) ==
    IF "clarification_count" \in DOMAIN state THEN state["clarification_count"].n ELSE 0

OrIsClarified(state) ==
    "is_clarified" \in DOMAIN state /\ state["is_clarified"] = PyBool(TRUE)

\* The number of messages of a type in a transcript.
OrTyped(messages, type) == Cardinality({ i \in 1..Len(messages) : messages[i].type = type })

\* The number of executions of the clarification node in an invocation.
OrClarificationRuns(trace) == Cardinality({ i \in 1..Len(trace) : trace[i] = "clarification" })

\* C16: run_batch drives the graph to the report node with research_brief equal
\* to the brief built from its arguments at every step, without a model call by
\* the clarification agent and without an exception; it ends with
\* current_phase = "complete" and returns the generated research_report.
C16_BatchReachesReport ==
    or_mode = "run_batch" =>
        /\ or_status # "error"
        /\ or_state["research_brief"] = or_brief
        /\ or_llm_calls = 0
        /\ or_status = "done" =>
             /\ or_trace = <<"clarification", "check_clarification",
                             "research", "generate_report">>
             /\ or_state["current_phase"] = PyStr("complete")
             /\ or_state["research_report"] \in {PyStr("report"), PyStr("")}
             /\ or_ret = or_state["research_report"]
             /\ or_state["messages"][Len(or_state["messages"])].content
                    = or_state["research_report"].s

\* A second run_batch on the same orchestrator has returned its report; its
\* brief has questions.
C16_Witness ==
    /\ or_mode = "run_batch"
    /\ or_status = "done"
    /\ or_batches = 2
    /\ or_brief.key_questions = <<"a", "b">>
    /\ or_state["research_brief"] = or_brief
    /\ or_ret = PyStr("report")
    /\ or_trace[Len(or_trace)] = "generate_report"

\* C19: ask_clarification appends the canned greeting, without a model call,
\* if and only if clarification_count is 0, whatever the transcript holds; for
\* a count above 0 it appends the model's reply; either way the transcript
\* gains exactly one assistant message, at its end, and the count grows by 1.
C19_GreetingIffCountZero ==
    [][ (or_node = "clarification" /\ or_trace' # or_trace) =>
          LET old == or_state["messages"]
              new == or_state'["messages"]
              last == new[Len(new)]
          IN  /\ OrCount(or_state') = OrCount(or_state) + 1
              /\ OrTyped(new, "ai") = OrTyped(old, "ai") + 1
              /\ OrTyped(new, "human") = OrTyped(old, "human")
              /\ last.type = "ai"
              /\ IF old = <<>>
                 THEN Len(new) = 2 /\ new[1].type = "system"
                 ELSE new = Append(old, last)
              /\ OrCount(or_state) = 0 <=>
                    (last.content = CannedGreeting /\ or_llm_calls' = or_llm_calls)
              /\ OrCount(or_state) > 0 =>
                    /\ last.content \in {"Which aspects?", "I have enough information."}
                    /\ or_llm_calls' = or_llm_calls + 1
      ]_vars

\* The interactive session: the transcript held the user's message and the
\* count was 0, so the first answer was the greeting; later ones came from the
\* model.
C19_Witness ==
    /\ or_mode = "run_interactive"
    /\ Len(or_state["messages"]) = 3
    /\ or_state["messages"][1].type = "human"
    /\ or_state["messages"][2].content = CannedGreeting
    /\ or_state["messages"][3].content = "I have enough information."
    /\ or_llm_calls = 1
    /\ OrCount(or_state) = 2

\* C20: should_continue_clarification returns "proceed" (the research node is
\* next) if and only if is_clarified is true or clarification_count >= 5, and
\* "continue" (the clarification node is next) otherwise; the clarification
\* node runs at most 5 times in an invocation before the graph moves to
\* research.
C20_ProceedIffClarifiedOrFive ==
    [][ /\ (or_node = "check_clarification" /\ or_trace' # or_trace
               /\ or_status' # "error") =>
             /\ or_node' = "research" <=>
                   (OrIsClarified(or_state') \/ OrCount(or_state') >= 5)
             /\ or_node' = "clarification" <=>
                   ~(OrIsClarified(or_state') \/ OrCount(or_state') >= 5)
        /\ OrClarificationRuns(or_trace') <= 5
      ]_vars

\* The interactive session after five executions of the clarification node:
\* the count is 5, nothing is clarified, and the research node is next.
C20_Witness ==
    /\ or_mode = "run_interactive"
    /\ or_node = "research"
    /\ OrClarificationRuns(or_trace) = 5
    /\ OrCount(or_state) = 5
    /\ ~OrIsClarified(or_state)

----------------------------------------------------------------------------
(* Claims about the graph.py workflow                                      *)

GwLastIsGreeting(state) ==
    /\ Len(state["messages"]) > 0
    /\ state["messages"][Len(state["messages"])] = Message("assistant", Greeting)

\* C18: an invocation of the graph.py workflow on an empty transcript ends once
\* the clarification node has emitted the greeting, the greeting being the last
\* message returned to the caller; the clarification node is not executed
\* again in that invocation.
C18_Original ==
    [][ /\ (gw_node = "clarification" /\ gw_steps' # gw_steps
               /\ Len(gw_state["messages"]) = 0) =>
             /\ GwLastIsGreeting(gw_state')
             /\ gw_node' = END
             /\ gw_status' = "done"
        /\ (gw_greeted /\ gw_node = "clarification") => gw_steps' = gw_steps
        /\ gw_greeted' => gw_status' # "error"
      ]_vars

\* What the code does: the greeting is emitted and kept, but the run never
\* reaches END after it.
C18_GreetingThenNoEnd ==
    gw_greeted => (GwLastIsGreeting(gw_state) /\ gw_node = "clarification"
                      /\ gw_status # "done")

----------------------------------------------------------------------------
(* Claims about a rejected brief in the agent.py workflow                  *)

\* C17: in the agent.py workflow, when the user does not confirm the research
\* brief, clarification is restarted: the clarification node is the next node
\* to run, before the workflow ends or research begins.
C17_Original ==
    [][ (wf_node = "clarification_agent" /\ wf_trace' # wf_trace
            /\ ~WfApproved(wf_state')) =>
          (wf_node' = "clarification_agent" /\ wf_status' = "running")
      ]_vars

\* What the code does with a rejected brief: the run is over.
C17_RejectionEnds ==
    [][ (wf_node = "clarification_agent" /\ wf_trace' # wf_trace
            /\ ~WfApproved(wf_state')) =>
          (wf_node' = END /\ wf_status' = "done"
              /\ wf_state'["current_stage"] = PyStr("clarification"))
      ]_vars

----------------------------------------------------------------------------
(* C21: check_if_clarified finalizes iff count >= 5 or the reply says READY *)

\* The word "ready" stands in the content, in whatever case.
SaysReady(content) ==
    \E i \in 1..Len(content) :
        /\ i + 4 <= Len(content)
        /\ Lower(SubSeq(content, i, i + 4)) = <<"r", "e", "a", "d", "y">>

CqFinalized ==
    /\ cq_ret["research_brief"] # PyNone
    /\ cq_ret["is_clarified"] = PyBool(TRUE)
    /\ Len(cq_ret["messages"]) = Len(cq_state["messages"]) + 1
    /\ SubSeq(cq_ret["messages"], 1, Len(cq_state["messages"])) = cq_state["messages"]
    /\ cq_ret["messages"][Len(cq_ret["messages"])].type = "ai"
    /\ \A k \in DOMAIN cq_state \ {"messages", "research_brief", "is_clarified"} :
           cq_ret[k] = cq_state[k]

\* C21: check_if_clarified finalizes the brief (a non-null research_brief,
\* is_clarified True, exactly one confirmation message appended) if and only
\* if clarification_count >= 5 or the readiness reply contains "READY" in any
\* case; in every other case it returns the state unchanged.
C21_FinalizesIffFiveOrReady ==
    cq_pc = "returned" =>
        IF OrCount(cq_state) >= 5 \/ SaysReady(cq_reply)
        THEN CqFinalized
        ELSE cq_ret = cq_state

C21_Witness ==
    /\ cq_pc = "returned"
    /\ OrCount(cq_state) < 5
    /\ cq_state["research_brief"] = PyNone
    /\ cq_reply = <<"n", "o", "t", " ", "r", "e", "a", "d", "y">>
    /\ CqFinalized

----------------------------------------------------------------------------
(* C22: the confirmation that approves the brief in agent.py               *)

StartsWithY(confirmation) ==
    confirmation # <<>> /\ confirmation[1] \in {"y", "Y"}

WfApproval ==
    [research_brief |-> PyStr("brief_text"),
     clarification_complete |-> PyBool(TRUE),
     current_stage |-> PyStr("research")]

WfRejection ==
    [clarification_complete |-> PyBool(FALSE),
     current_stage |-> PyStr("clarification")]

\* C22: in agent.py's clarification_agent the brief is approved if and only if
\* the user's confirmation starts with "y" or "Y". On approval the node returns
\* the rendered brief text with clarification_complete True and current_stage
\* "research"; on any other confirmation, the empty string and "no thanks"
\* included, it returns clarification_complete False and current_stage
\* "clarification" and no brief, so the state's research_brief key is as it
\* was. The confirmation is the value the interrupt after the last question
\* was resumed with.
C22_ApprovedIffStartsWithY ==
    [][ (wf_node = "clarification_agent" /\ wf_trace' # wf_trace
            /\ ~WfApproved(wf_state)) =>
          \E n \in 0..MaxQuestions :
              /\ Len(wf_resumes) >= n + 1
              /\ IF StartsWithY(wf_resumes[n + 1])
                 THEN wf_state' = Merge(wf_state, WfApproval)
                 ELSE /\ wf_state' = Merge(wf_state, WfRejection)
                      /\ Get(wf_state', "research_brief", PyNone)
                             = Get(wf_state, "research_brief", PyNone)
      ]_vars

\* The user answered one question and approved the brief: the brief text is
\* stored and the run stands before the research node.
C22_Witness ==
    /\ wf_trace = <<"clarification_agent">>
    /\ wf_node = "research_agent"
    /\ wf_status = "running"
    /\ {"research_brief", "clarification_complete", "current_stage"} \subseteq DOMAIN wf_state
    /\ wf_state["research_brief"] = PyStr("brief_text")
    /\ wf_state["clarification_complete"] = PyBool(TRUE)
    /\ wf_state["current_stage"] = PyStr("research")

----------------------------------------------------------------------------
(* C23: the sentinels that end the question loop of clarify_research_scope *)

SentinelWords ==
    { <<"d", "o", "n", "e">>, <<"D", "O", "N", "E">>,
      <<"C", "o", "m", "p", "l", "e", "t", "e">>,
      <<"F", "I", "N", "I", "S", "H", "E", "D">>,
      <<"r", "e", "a", "d", "y">> }

\* C23: in clarify_research_scope the question loop ends, and the brief is
\* generated, only when a user response lowercased equals one of "done",
\* "complete", "finished", "ready". Every other response is appended to the
\* accumulated context and another round of clarifying questions is generated.
\* The brief is built from the context accumulated up to the sentinel, the
\* sentinel itself excluded.
C23_SentinelEndsLoop ==
    [][ (cs_pc = "questions" /\ cs_llm_calls' # cs_llm_calls) =>
          IF cs_response' \in SentinelWords
          THEN /\ cs_pc' = "confirm"
               /\ cs_brief' = cs_brief + 1
               /\ cs_context' = cs_user_input
               /\ cs_user_input' = cs_user_input
               /\ cs_llm_calls' = cs_llm_calls + 1
          ELSE /\ cs_pc' = "questions"
               /\ cs_user_input' = Append(cs_user_input, cs_response')
               /\ cs_llm_calls' = cs_llm_calls + 1
               /\ cs_brief' = cs_brief
               /\ cs_context' = cs_context
      ]_vars

\* "finish" was added to the request, "FINISHED" then ended the loop, and the
\* brief was generated from the request with "finish" and without "FINISHED".
C23_Witness ==
    /\ cs_pc = "confirm"
    /\ cs_response = <<"F", "I", "N", "I", "S", "H", "E", "D">>
    /\ Len(cs_context) = 2
    /\ cs_context[2] = <<"f", "i", "n", "i", "s", "h">>
    /\ cs_context = cs_user_input
    /\ cs_brief = 1

----------------------------------------------------------------------------
(* C24, C25: the clarification loop of the orchestrator's interactive run   *)

OrHasBrief(state) ==
    "research_brief" \in DOMAIN state /\ state["research_brief"] # PyNone

\* C24: in the orchestrator graph the research node is never executed with
\* research_brief = None: in every run started by run_interactive or run_batch
\* the state that reaches the research node holds a brief, finalized by
\* check_if_clarified or supplied by the caller.
C24_Original ==
    (or_mode \in {"run_interactive", "run_batch"} /\ or_node = "research")
        => OrHasBrief(or_state)

\* What holds of the brief at the research node: is_clarified true brings a
\* brief there, and a run without one got there on the count alone.
C24_BriefOrFiveClarifications ==
    (or_mode \in {"run_interactive", "run_batch"} /\ or_node = "research")
        => \/ OrHasBrief(or_state)
           \/ (~OrIsClarified(or_state) /\ OrCount(or_state) >= 5)

\* C25: in the orchestrator's interactive session a graph invocation made after
\* a user message produces at most one new assistant clarification question
\* before control returns to the user: the clarification node is not executed
\* twice without a user message in between, and the readiness check runs with
\* the user's reply as the last message.
C25_Original ==
    [][ or_mode = "run_interactive" =>
          /\ (or_node = "clarification" /\ or_trace' # or_trace)
                => OrClarificationRuns(or_trace) < OrTyped(or_state["messages"], "human")
          /\ (or_node = "check_clarification" /\ or_trace' # or_trace)
                => or_state["messages"][Len(or_state["messages"])].type = "human"
      ]_vars

\* What the code does: the check node always finds the assistant's message
\* last, so the readiness check is skipped and the clarification node follows
\* again until the count is 5.
C25_CheckSeesAssistantLast ==
    [][ (or_mode = "run_interactive" /\ or_node = "check_clarification"
            /\ or_trace' # or_trace) =>
          /\ or_state["messages"][Len(or_state["messages"])].type = "ai"
          /\ or_state' = or_state
          /\ or_node' = (IF OrCount(or_state) >= 5 THEN "research" ELSE "clarification")
      ]_vars

----------------------------------------------------------------------------
(* C26: the bound on the tool loop of ReactAgent.conduct_research          *)

RaHasBrief == Truthy(Get(ra_state, "research_brief", PyNone))

\* The responses of the tool loop, in order.
RaResponses == SelectSeq(ra_messages, LAMBDA m : m.type = "ai")

\* The loop made at most 10 model invocations and went on exactly as long as
\* the responses requested tool calls; after it one more invocation gave the
\* final report.
RaLoopBounded ==
    /\ ra_iteration <= max_iterations
    /\ Len(RaResponses) = ra_iteration
    /\ \A i \in 1..(Len(RaResponses) - 1) : RaResponses[i].tool_calls # <<>>
    /\ ra_pc = "final" =>
         /\ ra_invocations = ra_iteration
         /\ \/ RaResponses[ra_iteration].tool_calls = <<>>
            \/ ra_iteration = max_iterations
    /\ ra_pc = "done" =>
         /\ ra_invocations = ra_iteration + 1
         /\ ra_ret["final_report"] = "final_report_text"

\* C26: ReactAgent.conduct_research with a non-empty brief always terminates
\* with a report: the tool loop performs at most 10 model invocations, stops at
\* the first response that requests no tool call, and is followed by exactly
\* one further model invocation whose content becomes final_report, also when
\* the 10th response still requests tool calls. No run leaves the method any
\* other way.
C26_Original ==
    RaHasBrief => (RaLoopBounded /\ ra_pc # "raised")

\* The bound itself holds of every run, the runs that end in the KeyError of
\* a tool call without "query" included.
C26_LoopBounded ==
    RaHasBrief => RaLoopBounded

----------------------------------------------------------------------------
(* C27: conduct_research without a brief, and how the graph gets there     *)

NoBriefIn(state) == ~Truthy(Get(state, "research_brief", PyNone))

\* C27: ReactAgent.conduct_research, when the state's research_brief is
\* missing or empty, returns final_report = "No research brief provided"
\* without invoking the model or the search tool and without adding a message.
\* The graph gets there when a run starts with clarification_complete already
\* true and an empty brief: the clarify node then returns only
\* clarification_complete = True, the research node follows, and the run ends
\* with that report and the transcript it started with.
C27_NoBriefNoResearch ==
    /\ (ra_pc \notin {"idle", "entry"} /\ NoBriefIn(ra_state)) =>
          /\ ra_pc = "done"
          /\ ra_ret = [final_report |-> "No research brief provided"]
          /\ ra_invocations = 0
          /\ ra_searches = <<>>
          /\ ra_messages = <<>>
    /\ (rg_node # START /\ Truthy(Get(rg_input, "clarification_complete", PyBool(FALSE)))
           /\ NoBriefIn(rg_input)) =>
          /\ rg_trace \in { <<>>, <<"clarify">>, <<"clarify", "research">> }
          /\ cs_llm_calls = 0
          /\ rg_trace # <<>> =>
                rg_state = RgMerge(rg_input, [clarification_complete |-> PyBool(TRUE)]
                              @@ (IF rg_status = "done"
                                  THEN [final_report |-> PyStr("No research brief provided")]
                                  ELSE EmptyDict))
          /\ rg_status = "done" =>
                /\ rg_trace = <<"clarify", "research">>
                /\ ra_invocations = 0
                /\ Get(rg_state, "messages", <<>>) = Get(rg_input, "messages", <<>>)
          /\ rg_status # "error"

\* A run that was started with clarification complete and the brief "" and
\* ended with the report "No research brief provided".
C27_Witness ==
    /\ rg_status = "done"
    /\ rg_input["clarification_complete"] = PyBool(TRUE)
    /\ "research_brief" \in DOMAIN rg_input
    /\ rg_input["research_brief"] = PyStr("")
    /\ rg_trace = <<"clarify", "research">>
    /\ rg_state["final_report"] = PyStr("No research brief provided")
    /\ ra_invocations = 0
    /\ ra_searches = <<>>

----------------------------------------------------------------------------
(* C28: clarify_research_scope returns only with clarification complete    *)

RgClarifyRuns == Cardinality({ i \in 1..Len(rg_trace) : rg_trace[i] = "clarify" })

\* C28: clarify_research_scope only ever returns with clarification_complete
\* = True. A rejected brief restarts clarification inside the same call, from
\* the initial request and without the clarifications gathered so far. So in
\* research_agent/graph.py the edge from "clarify" to "clarify" is never taken:
\* every run that leaves the clarify node goes to research.
C28_ClarifyReturnsComplete ==
    [][ /\ (cs_pc # "returned" /\ cs_pc' = "returned") =>
              /\ "clarification_complete" \in DOMAIN cs_ret'
              /\ cs_ret'["clarification_complete"] = PyBool(TRUE)
        /\ (cs_pc = "confirm" /\ cs_pc' # "confirm" /\ cs_pc' # "returned") =>
              /\ cs_pc' = "start"
              /\ cs_state' = cs_state
              /\ rg_trace' = rg_trace /\ rg_node' = "clarify"
        /\ (cs_pc = "start" /\ cs_pc' = "questions") =>
              /\ cs_user_input' = get_initial_request(cs_state)
              /\ Len(cs_user_input') = 1
        /\ rg_trace' = Append(rg_trace, "clarify") =>
              /\ rg_trace = <<>>
              /\ rg_node' = "research"
              /\ Truthy(rg_state'["clarification_complete"])
        /\ RgClarifyRuns' <= 1
      ]_vars

\* "no thanks" turned the first brief down; the same call started over,
\* generated a second brief from the request alone and returned it on "y".
C28_Witness ==
    /\ rg_node = "clarify"
    /\ rg_status = "in_node"
    /\ rg_trace = <<>>
    /\ cs_pc = "returned"
    /\ cs_confirmation = << <<"n", "o", " ", "t", "h", "a", "n", "k", "s">>, <<"y">> >>
    /\ cs_brief = 2
    /\ Len(cs_context) = 1
    /\ cs_ret["clarification_complete"] = PyBool(TRUE)

----------------------------------------------------------------------------
(* C29: the completion flag comes with a brief, in every variant           *)

\* The clarification steps of clarification_agent.py, research_agent.py,
\* agent.py, agents/clarification_agent.py and research_agent/ side by side:
\* a behaviour is a behaviour of one of the variants.
InitClarification == InitCa \/ InitOg \/ InitWf \/ InitCq \/ InitCs

ClarificationNext ==
    \/ CaNext
    \/ OgNext
    \/ WfNext
    \/ CqNext
    \/ CsNext

SpecClarification == InitClarification /\ [][ClarificationNext]_vars

FlagSet(state, flag) == Truthy(Get(state, flag, PyBool(FALSE)))

\* The flag is not set, or the brief is there and the phase, in a variant that
\* keeps one under the key `phase`, is "research".
FlagWithBrief(state, flag, phase) ==
    FlagSet(state, flag) =>
        /\ "research_brief" \in DOMAIN state
        /\ state["research_brief"] # PyNone
        /\ phase # "" => Get(state, phase, PyNone) = PyStr("research")

====
